---- MODULE Spec2Model ----
(***************************************************************************)
(* A model of the Polyflow SDK middleware (src/unnamed/part_000, lines     *)
(* 1097-2613, the current version of core/middleware/provider.ts): the     *)
(* event deduplicator, the event-logging functions, the WebSocket proxy    *)
(* and the window.ethereum request proxy.                                  *)
(*                                                                         *)
(* Strings are sequences of character codes.  An async function is a task  *)
(* record whose pc names the await it is suspended at; one action runs the *)
(* code between two awaits.                                                *)
(***************************************************************************)
EXTENDS Integers, Sequences, FiniteSets, TLC

VARIABLES
    now,                 \* Date.now()
    PF_EVENTS_HASH_MAP,  \* localStorage[PF_EVENTS_HASH_MAP]: array of <<hash, timestamp>>
    gqlCalls,            \* requests handed to gqlClient.request, in order
    checkLog,            \* calls of checkShouldLogEvent, in order (history)
    tasks,               \* invocations of the async log functions
    hostErrors,          \* exceptions and unhandled rejections the page sees
    ethereum,            \* the injected provider object behind the proxy
    calls,               \* calls of window.ethereum.request(...) made by the page
    lastAccess,          \* the last pass-through access made through the proxy (history)
    wcObject,            \* the WalletConnect session read from localStorage, or none
    cbObject,            \* the Coinbase session read from localStorage, or none
    wsMessages,          \* Map: correlation id -> transaction data of a pending request
    wsRuns,              \* decrypt promises awaited by the socket observers
    consumed,            \* ids whose pending entry an inbound frame has matched (history)
    lastSend,            \* the call of a socket's wrapped send, if that came last (history)
    lastMessage,         \* the inbound frame whose inspection ended last (history)
    page                 \* what the SDK has installed on the page, and how far attach is

dedupVars == <<PF_EVENTS_HASH_MAP, gqlCalls, checkLog>>
providerVars == <<ethereum, calls, lastAccess>>
wsVars == <<wcObject, cbObject, wsMessages, wsRuns, consumed, lastSend, lastMessage>>
vars == <<now, dedupVars, tasks, hostErrors, providerVars, wsVars, page>>

(***************************************************************************)
(* Bounds of the model.                                                    *)
(***************************************************************************)
StartTime == 1
MaxTime == 2001
MaxTasks == 2

MIN_TIME_DIFF_FOR_EVENT_LOG_MS == 1000

(***************************************************************************)
(* 32-bit integer arithmetic of hashEvent, on 16-bit halves so that no     *)
(* intermediate value leaves the range of a 32-bit integer.                *)
(***************************************************************************)
Lo16(x) == x % 65536
Hi16(x) == (x \div 65536) % 65536

\* ToInt32 of the number whose low 32 bits are hi * 2^16 + lo  (hash |= 0)
ToInt32(hi, lo) ==
    IF hi >= 32768 THEN (hi - 65536) * 65536 + lo ELSE hi * 65536 + lo

\* hash << 5
Shl5(hash) ==
    LET lo == Lo16(hash) * 32
        hi == Hi16(hash) * 32 + (lo \div 65536)
    IN  ToInt32(hi % 65536, lo % 65536)

\* one round of the loop: hash = (hash << 5) - hash + chr; hash |= 0
HashStep(hash, chr) ==
    LET s  == Shl5(hash)
        lo == Lo16(s) - Lo16(hash) + chr
        hi == Hi16(s) - Hi16(hash) + (lo \div 65536)
    IN  ToInt32(hi % 65536, lo % 65536)

RECURSIVE HashFrom(_, _, _)
HashFrom(hash, data, i) ==
    IF i > Len(data) THEN hash
    ELSE LET next == HashStep(hash, data[i])
         IN  IF next \in Int THEN HashFrom(next, data, i + 1) ELSE next

(***************************************************************************)
(* Strings.                                                                *)
(***************************************************************************)
\* String.prototype.toLowerCase on the ASCII letters
toLowerCase(s) == [i \in 1..Len(s) |-> IF s[i] >= 65 /\ s[i] <= 90 THEN s[i] + 32 ELSE s[i]]

\* String.prototype.includes
includes(s, sub) ==
    \E i \in 0..(Len(s) - Len(sub)) : \A j \in 1..Len(sub) : s[i + j] = sub[j]

RECURSIVE Digits(_)
\* Number.prototype.toString / BigNumber.toString of a natural number
Digits(n) == IF n < 10 THEN <<48 + n>> ELSE Digits(n \div 10) \o <<48 + (n % 10)>>

Quote(s) == <<34>> \o s \o <<34>>
JsonNull == <<110, 117, 108, 108>>
\* a string-or-null value; null is modelled as the empty sequence where the code
\* can never hold an empty string
JsonStringOrNull(s) == IF s = <<>> THEN JsonNull ELSE Quote(s)

(***************************************************************************)
(* Events.  An event keeps the fields that vary in the model: the tracker  *)
(* kind, the device's wallet fields, the chain snapshot (left out when     *)
(* getChainState returns null), the tx block and the error list.  The      *)
(* fields that are the same for every event of a page (origin, session id, *)
(* user agent, ...) are left out of the serialisation.                     *)
(***************************************************************************)
NoChainState == [present |-> FALSE, walletAddress |-> <<>>, blockHeight |-> 0]
NoTx == [present |-> FALSE, from |-> <<>>, to |-> <<>>, value |-> 0,
         hash |-> <<>>, status |-> "PENDING"]
NoErrors == [present |-> FALSE, list |-> <<>>]

\* the text of the enum and type names, abbreviated to distinct letters
Chars(name) ==
    CASE name = "WALLET_CONNECT" -> <<87, 67>>
      [] name = "USER_LANDED"    -> <<85, 76>>
      [] name = "TX_REQUEST"     -> <<84, 82>>
      [] name = "GENERIC_ERROR"  -> <<71, 69>>
      [] name = "PENDING"        -> <<80>>
      [] name = "SUCCESS"        -> <<83>>
      [] name = "FAILURE"        -> <<70>>
      [] name = "CANCELLED"      -> <<67>>
      [] name = "injected"       -> <<105>>
      [] name = "walletconnect"  -> <<119>>
      [] name = "coinbase"       -> <<99>>
      [] name = "none"           -> <<110>>
      [] name = "metamask"       -> <<109>>
      [] OTHER                   -> <<63>>

\* JSON.stringify(event): the values in the order of the object literal
stringify(event) ==
    Quote(Chars(event.eventTracker)) \o <<44>>
    \o Quote(Chars(event.walletType)) \o <<44>>
    \o Quote(Chars(event.walletProvider))
    \o (IF event.chainState.present
        THEN <<44, 119>> \o Quote(event.chainState.walletAddress)
             \o <<44>> \o Quote(Digits(event.chainState.blockHeight))
        ELSE <<>>)
    \o (IF event.tx.present
        THEN <<44, 116>> \o Quote(event.tx.from) \o <<44>> \o Quote(event.tx.to)
             \o <<44>> \o Quote(Digits(event.tx.value))
             \o <<44>> \o JsonStringOrNull(event.tx.hash)
             \o <<44>> \o Quote(Chars(event.tx.status))
        ELSE <<>>)
    \o (IF event.errors.present
        THEN <<44, 101>> \o Quote(event.errors.list)
        ELSE <<>>)

\* the hash itself stands for hash.toString(), which is one-to-one
hashEvent(event) == HashFrom(0, stringify(event), 1)

(***************************************************************************)
(* The dedup record: a Map<string, number> kept in localStorage as the     *)
(* JSON array of its entries.  A Map is a sequence of <<key, value>> in    *)
(* insertion order.                                                        *)
(***************************************************************************)
MapHas(map, key) == \E i \in 1..Len(map) : map[i][1] = key

\* Map.prototype.get; undefined is 0, which the one use (if (previousTimestamp))
\* does not tell apart from it
MapGet(map, key) ==
    IF MapHas(map, key)
    THEN map[CHOOSE i \in 1..Len(map) : map[i][1] = key][2]
    ELSE 0

\* Map.prototype.set: an existing key keeps its place
MapSet(map, key, value) ==
    IF MapHas(map, key)
    THEN [i \in 1..Len(map) |-> IF map[i][1] = key THEN <<key, value>> ELSE map[i]]
    ELSE Append(map, <<key, value>>)

RECURSIVE MapFromEntries(_, _)
MapFromEntries(map, entries) ==
    IF entries = <<>> THEN map
    ELSE MapFromEntries(MapSet(map, Head(entries)[1], Head(entries)[2]), Tail(entries))

\* new Map(JSON.parse(localStorage.getItem(PF_EVENTS_HASH_MAP) ?? '[]'))
loadMap(stored) == MapFromEntries(<<>>, stored)

\* localStorage.setItem(PF_EVENTS_HASH_MAP, JSON.stringify([...hashMap]))
storeMap(hashMap) == hashMap

\* a storeEvent that builds the new map and never writes it back
storeEvent_NotWritten(stored, eventHash, timestamp) ==
    stored

storeEvent(stored, eventHash, timestamp) ==
    storeMap(MapSet(loadMap(stored), eventHash, timestamp))

\* the decision with the comparison turned round
shouldBeLogged_Inverted(previousTimestamp, currentTimestamp) ==
    ~(previousTimestamp # 0
      /\ currentTimestamp - previousTimestamp > MIN_TIME_DIFF_FOR_EVENT_LOG_MS)

\* the decision of checkShouldLogEvent
shouldBeLogged(previousTimestamp, currentTimestamp) ==
    ~(previousTimestamp # 0
      /\ currentTimestamp - previousTimestamp < MIN_TIME_DIFF_FOR_EVENT_LOG_MS)

\* the timestamp is written only for an event that is to be logged
checkShouldLogEvent_StoresLogged(stored, event, currentTimestamp) ==
    LET eventHash == hashEvent(event)
        previousTimestamp == MapGet(loadMap(stored), eventHash)
    IN  [eventHash |-> eventHash,
         shouldBeLogged |-> shouldBeLogged(previousTimestamp, currentTimestamp),
         stored |-> IF shouldBeLogged(previousTimestamp, currentTimestamp)
                    THEN storeEvent(stored, eventHash, currentTimestamp)
                    ELSE stored]

\* the result and the new value of localStorage[PF_EVENTS_HASH_MAP]
checkShouldLogEvent(stored, event, currentTimestamp) ==
    LET eventHash == hashEvent(event)
        previousTimestamp == MapGet(loadMap(stored), eventHash)
    IN  [eventHash |-> eventHash,
         shouldBeLogged |-> shouldBeLogged(previousTimestamp, currentTimestamp),
         stored |-> storeEvent(stored, eventHash, currentTimestamp)]

(***************************************************************************)
(* The async log functions.  A task is one invocation; walletResult is the *)
(* WalletResponse it was given (providerNull: its provider is null, which  *)
(* chainIdToWeb3Provider returns for a chain id the chainlist lacks).      *)
(***************************************************************************)
BlockHeights == {1}

\* what eth_blockNumber can come to in getChainState: the injected provider is
\* read through the request proxy, which swallows a failed call and returns
\* undefined, and BigNumber.from(undefined ?? "0") is 0
ReadsOf(walletResult) ==
    IF walletResult.type = "injected" THEN BlockHeights \cup {0} ELSE BlockHeights

\* the transaction parameters a log function is given (Tx)
NoTxParams == [from |-> <<>>, to |-> <<>>, value |-> 0]

NoEvent == [eventTracker |-> "none", walletType |-> "none", walletProvider |-> "none",
            chainState |-> NoChainState, tx |-> NoTx, errors |-> NoErrors]

NewTask(fn, walletResult, tx, txStatus, result, src) ==
    [fn |-> fn, pc |-> "getChainState", walletResult |-> walletResult, tx |-> tx,
     txStatus |-> txStatus, result |-> result, errors |-> <<>>, src |-> src,
     eventData |-> NoEvent, sub |-> 0,
     attempts |-> 0,       \* waitMined: attempts
     polls |-> 0,          \* eth_getTransactionReceipt lookups made (history)
     receipt |-> [present |-> FALSE, blockNumber |-> FALSE, status |-> "absent"],
                           \* what the last lookup resolved with (history)
     returned |-> "none",  \* what waitMined returned: null, SUCCESS or FAILURE
     walletsList |-> <<>>, \* logUserLanded / logErrors: what fetchWallet returned
     events |-> <<>>,      \* logUserLanded / logErrors: the events built so far
     i |-> 0,              \* logUserLanded / logErrors: the index of the running loop
     userId |-> 0,         \* const userId = getUserId() (0: not modelled)
     overlapped |-> FALSE] \* waitMined of another call was polling when this call
                           \* last ran checkShouldLogEvent (history)

eventTrackerOf(fn) ==
    CASE fn = "logWalletConnect"   -> "WALLET_CONNECT"
      [] fn = "logSendTransaction" -> "TX_REQUEST"
      [] fn = "logErrors"          -> "GENERIC_ERROR"
      [] OTHER                     -> "USER_LANDED"

mutationOf(fn) ==
    CASE fn = "logWalletConnect"   -> "CreateWalletConnectedEvent"
      [] fn = "logSendTransaction" -> "CreateTxRequestEvent"
      [] fn = "logErrors"          -> "CreateErrorEvent"
      [] OTHER                     -> "CreateUserLandedEvent"

\* getDeviceState(walletResult): the wallet fields of the device block
\* the event a log function assembles once its chain reads have returned
buildEvent(task, chainState) ==
    [eventTracker |-> eventTrackerOf(task.fn),
     walletType |-> task.walletResult.type,
     walletProvider |-> task.walletResult.walletProvider,
     chainState |-> chainState,
     tx |-> IF task.fn = "logSendTransaction"
            THEN [present |-> TRUE, from |-> task.tx.from, to |-> task.tx.to,
                  value |-> task.tx.value,
                  hash |-> task.result,     \* txHash: null unless result is truthy
                  status |-> task.txStatus]
            ELSE NoTx,
     errors |-> IF task.fn = "logErrors"
                THEN [present |-> TRUE, list |-> task.errors]
                ELSE NoErrors]

\* logWalletConnect / logSendTransaction up to the first await (getChainState)
StartLog(fn, walletResult, tx, txStatus, result, src) ==
    tasks' = Append(tasks, NewTask(fn, walletResult, tx, txStatus, result, src))

\* the event is handed to gqlClient.request whatever checkShouldLogEvent returned
BuildAndCheck_IgnoresCheck(i, chainState) ==
    LET eventData == buildEvent(tasks[i], chainState)
        check == checkShouldLogEvent(PF_EVENTS_HASH_MAP, eventData, now)
        sub == Len(checkLog) + 1
    IN  /\ PF_EVENTS_HASH_MAP' = check.stored
        /\ checkLog' = Append(checkLog, [hash |-> check.eventHash, event |-> eventData,
                                         time |-> now, shouldBeLogged |-> check.shouldBeLogged,
                                         task |-> i])
        /\ gqlCalls' = Append(gqlCalls, [mutation |-> mutationOf(tasks[i].fn),
                                         sub |-> sub, task |-> i, newStatus |-> "none"])
        /\ tasks' = [tasks EXCEPT ![i].pc = "awaitCreate", ![i].eventData = eventData,
                                  ![i].sub = sub]

\* the code after the awaited reads: build the event, checkShouldLogEvent, and
\* hand the event to gqlClient.request when it should be logged
BuildAndCheck(i, chainState) ==
    LET eventData == buildEvent(tasks[i], chainState)
        check == checkShouldLogEvent(PF_EVENTS_HASH_MAP, eventData, now)
        sub == Len(checkLog) + 1
        polling == \E k \in 1..Len(tasks) :
                        k # i /\ tasks[k].pc = "waitMined" /\ tasks[k].polls > 0
    IN  /\ PF_EVENTS_HASH_MAP' = check.stored
        /\ checkLog' = Append(checkLog, [hash |-> check.eventHash, event |-> eventData,
                                         time |-> now, shouldBeLogged |-> check.shouldBeLogged,
                                         task |-> i])
        /\ IF check.shouldBeLogged
           THEN /\ gqlCalls' = Append(gqlCalls, [mutation |-> mutationOf(tasks[i].fn),
                                                 sub |-> sub, task |-> i,
                                                 newStatus |-> "none"])
                /\ tasks' = [tasks EXCEPT ![i].pc = "awaitCreate",
                                          ![i].eventData = eventData, ![i].sub = sub,
                                          ![i].overlapped = polling]
           ELSE /\ gqlCalls' = gqlCalls
                /\ tasks' = [tasks EXCEPT ![i].pc = "suppressed",
                                          ![i].eventData = eventData, ![i].sub = sub,
                                          ![i].overlapped = polling]

\* getChainState returns (null for an empty wallet, else the snapshot read through
\* walletResult.provider) and, for a transaction with a hash, so does
\* eth_getTransactionByHash
LogReadsReturn(i, blockHeight) ==
    /\ i \in 1..Len(tasks)
    /\ tasks[i].pc = "getChainState"
    /\ tasks[i].walletResult.wallet = <<>> \/ ~tasks[i].walletResult.providerNull
    /\ tasks[i].result # <<>> => ~tasks[i].walletResult.providerNull
    /\ blockHeight \in ReadsOf(tasks[i].walletResult)
    /\ BuildAndCheck(i, IF tasks[i].walletResult.wallet = <<>>
                        THEN NoChainState
                        ELSE [present |-> TRUE,
                              walletAddress |-> tasks[i].walletResult.wallet,
                              blockHeight |-> blockHeight])
    /\ UNCHANGED <<page, now, hostErrors, providerVars, wsVars>>

\* a read throws: provider is null, the RPC call fails, or eth_getTransactionByHash
\* returns null and fetchedTxInfo.maxFeePerGas is a TypeError; the function's
\* catch logs it and the function returns
LogReadsThrow(i) ==
    /\ i \in 1..Len(tasks)
    /\ tasks[i].pc = "getChainState"
    /\ \/ tasks[i].walletResult.wallet # <<>> /\ tasks[i].walletResult.type # "injected"
       \/ tasks[i].result # <<>>
    /\ tasks' = [tasks EXCEPT ![i].pc = "caught"]
    /\ UNCHANGED <<page, now, dedupVars, hostErrors, providerVars, wsVars>>

\* every transaction goes on to waitMined, whatever its status
CreateReturns_WatchesAll(i) ==
    /\ i \in 1..Len(tasks)
    /\ tasks[i].pc = "awaitCreate"
    /\ tasks' = [tasks EXCEPT ![i].pc =
                    IF tasks[i].fn = "logSendTransaction" THEN "waitMined" ELSE "done"]
    /\ UNCHANGED <<page, now, dedupVars, hostErrors, providerVars, wsVars>>

\* gqlClient.request(Create...Event) returns; a PENDING transaction goes on to
\* waitMined
CreateReturns(i) ==
    /\ i \in 1..Len(tasks)
    /\ tasks[i].pc = "awaitCreate"
    /\ tasks' = [tasks EXCEPT ![i].pc =
                    IF tasks[i].fn = "logSendTransaction" /\ tasks[i].txStatus = "PENDING"
                    THEN "waitMined" ELSE "done"]
    /\ UNCHANGED <<page, now, dedupVars, hostErrors, providerVars, wsVars>>

\* the failed request is sent once more
CreateThrows_Resubmits(i) ==
    /\ i \in 1..Len(tasks)
    /\ tasks[i].pc = "awaitCreate"
    /\ tasks' = [tasks EXCEPT ![i].pc = "caught"]
    /\ gqlCalls' = Append(gqlCalls, [mutation |-> mutationOf(tasks[i].fn), sub |-> tasks[i].sub,
                                     task |-> i, newStatus |-> "none"])
    /\ UNCHANGED <<page, now, PF_EVENTS_HASH_MAP, checkLog, hostErrors, providerVars, wsVars>>

\* gqlClient.request throws; the function's catch logs it
CreateThrows(i) ==
    /\ i \in 1..Len(tasks)
    /\ tasks[i].pc = "awaitCreate"
    /\ tasks' = [tasks EXCEPT ![i].pc = "caught"]
    /\ UNCHANGED <<page, now, dedupVars, hostErrors, providerVars, wsVars>>

LogNext ==
    \E i \in 1..Len(tasks) :
        \/ \E blockHeight \in BlockHeights \cup {0} : LogReadsReturn(i, blockHeight)
        \/ LogReadsThrow(i)
        \/ CreateReturns(i)
        \/ CreateThrows(i)

(***************************************************************************)
(* waitMined and the status update that follows it in logSendTransaction.  *)
(***************************************************************************)
retries == 50

\* what eth_getTransactionReceipt resolves with: null, a receipt without a block
\* number, or a mined receipt with status 0x0, 0x1 or none
Receipts ==
    {[present |-> FALSE, blockNumber |-> FALSE, status |-> "absent"],
     [present |-> TRUE, blockNumber |-> FALSE, status |-> "absent"]}
    \cup {[present |-> TRUE, blockNumber |-> TRUE, status |-> st] : st \in {"0x0", "0x1", "absent"}}

\* the statuses are swapped
waitMinedStep_Swapped(attempts, receipt) ==
    IF receipt.present /\ receipt.blockNumber
    THEN [returned |-> IF receipt.status = "0x0" THEN "SUCCESS" ELSE "FAILURE",
          attempts |-> attempts]
    ELSE [returned |-> IF attempts + 1 < retries THEN "none" ELSE "null",
          attempts |-> attempts + 1]

\* the loop runs while attempts <= retries
waitMinedStep_OneMore(attempts, receipt) ==
    IF receipt.present /\ receipt.blockNumber
    THEN [returned |-> IF receipt.status = "0x0" THEN "FAILURE" ELSE "SUCCESS",
          attempts |-> attempts]
    ELSE [returned |-> IF attempts + 1 <= retries THEN "none" ELSE "null",
          attempts |-> attempts + 1]

\* one turn of the loop of waitMined after the lookup gave receipt: the value
\* returned (none: the loop goes on) and attempts
waitMinedStep(attempts, receipt) ==
    IF receipt.present /\ receipt.blockNumber
    THEN [returned |-> IF receipt.status = "0x0" THEN "FAILURE" ELSE "SUCCESS",
          attempts |-> attempts]
    ELSE [returned |-> IF attempts + 1 < retries THEN "none" ELSE "null",
          attempts |-> attempts + 1]

\* logSendTransaction is called (by the request wrapper or a socket listener)
\* and runs up to its first await; the watcher polls up to retries times, so
\* one transaction is followed at a time
logSendTransaction(tx, txStatus, result, walletResult) ==
    /\ tasks = <<>>
    /\ StartLog("logSendTransaction", walletResult, tx, txStatus, result,
                [kind |-> "call", id |-> 0])
    /\ UNCHANGED <<page, now, dedupVars, hostErrors, providerVars, wsVars>>

\* one lookup of waitMined resolves with receipt; after a sleep the loop goes
\* on, or waitMined returns and logSendTransaction sends the status update for
\* a receipt
waitMined(i, receipt) ==
    /\ i \in 1..Len(tasks)
    /\ tasks[i].pc = "waitMined"
    /\ LET step == waitMinedStep(tasks[i].attempts, receipt)
       IN  /\ tasks' = [tasks EXCEPT ![i].polls = @ + 1,
                                     ![i].receipt = receipt,
                                     ![i].attempts = step.attempts,
                                     ![i].returned = step.returned,
                                     ![i].pc = CASE step.returned = "none" -> "waitMined"
                                                 [] step.returned = "null" -> "done"
                                                 [] OTHER -> "awaitUpdate"]
           /\ gqlCalls' = IF step.returned \in {"SUCCESS", "FAILURE"}
                          THEN Append(gqlCalls, [mutation |-> "UpdateTxRequestEventTxStatus",
                                                 sub |-> tasks[i].sub, task |-> i,
                                                 newStatus |-> step.returned])
                          ELSE gqlCalls
    /\ UNCHANGED <<page, now, PF_EVENTS_HASH_MAP, checkLog, hostErrors, providerVars, wsVars>>

\* a lookup of waitMined rejects; the catch of logSendTransaction logs it
waitMinedThrows(i) ==
    /\ i \in 1..Len(tasks)
    /\ tasks[i].pc = "waitMined"
    /\ tasks' = [tasks EXCEPT ![i].polls = @ + 1, ![i].pc = "caught"]
    /\ UNCHANGED <<page, now, dedupVars, hostErrors, providerVars, wsVars>>

\* gqlClient.request(UpdateTxRequestEventTxStatus) returns or throws
UpdateSettles(i, ok) ==
    /\ i \in 1..Len(tasks)
    /\ tasks[i].pc = "awaitUpdate"
    /\ tasks' = [tasks EXCEPT ![i].pc = IF ok THEN "done" ELSE "caught"]
    /\ UNCHANGED <<page, now, dedupVars, hostErrors, providerVars, wsVars>>

\* time passes
Tick(d) ==
    /\ now + d <= MaxTime
    /\ now' = now + d
    /\ UNCHANGED <<page, dedupVars, tasks, hostErrors, providerVars, wsVars>>

(***************************************************************************)
(* The injected provider and the proxy window.ethereum returns.            *)
(***************************************************************************)
MaxListeners == 2
MaxCalls == 1

Accounts == {<<65>>}
AccountLists == {<<>>} \cup {<<a>> : a \in Accounts}

\* a log function may still be started: every awaited request may start one
CanStartLog ==
    Len(tasks) + Cardinality({c \in 1..Len(calls) : calls[c].pc = "awaitReal"}) < MaxTasks

InjectedWallet(wallet) ==
    [type |-> "injected", wallet |-> wallet, walletProvider |-> "metamask",
     providerNull |-> FALSE]

\* property values: a boolean, a number or a function
Value(type, num, name) == [type |-> type, num |-> num, name |-> name]
NoAccess == [prop |-> "", called |-> FALSE, result |-> Value("undefined", 0, ""),
             before |-> [present |-> TRUE, listeners |-> 0],
             after |-> [present |-> TRUE, listeners |-> 0],
             logsStarted |-> 0]

ProviderProps == {"isMetaMask", "listenerCount", "on", "removeListener", "request"}
ProviderMethods == {"on", "removeListener"}

\* Reflect.get(target, prop, receiver)
ReflectGet(target, prop) ==
    CASE prop = "isMetaMask"    -> Value("boolean", 1, "")
      [] prop = "listenerCount" -> Value("number", target.listeners, "")
      [] prop \in {"on", "removeListener", "request"} -> Value("function", 0, prop)
      [] OTHER                  -> Value("undefined", 0, "")

\* a set of proxied functions that has grown beyond request
proxiedFunctions_Wider == {"request", "on"}

proxiedFunctions == {"request"}

\* handler.get(target, prop, receiver)
handlerGet(target, prop) ==
    IF prop \notin proxiedFunctions
    THEN ReflectGet(target, prop)
    ELSE Value("function", 0, "pfRequestWrapper")

\* the provider after the function value fn was called on it
Invoke(fn, target) ==
    CASE fn.type = "function" /\ fn.name = "on" ->
            [target EXCEPT !.listeners = @ + 1]
      [] fn.type = "function" /\ fn.name = "removeListener" ->
            [target EXCEPT !.listeners = IF @ > 0 THEN @ - 1 ELSE 0]
      [] OTHER -> target

\* the page reads window.ethereum[prop]
ProxyGet(prop) ==
    /\ UNCHANGED <<page, now, dedupVars, tasks, hostErrors, ethereum, calls, wsVars>>
    /\ lastAccess' = [prop |-> prop, called |-> FALSE,
                      result |-> handlerGet(ethereum, prop),
                      before |-> ethereum, after |-> ethereum',
                      logsStarted |-> Len(tasks') - Len(tasks)]

\* the page calls window.ethereum[prop](...)
ProxyCall(prop) ==
    /\ prop = "on" => ethereum.listeners < MaxListeners
    /\ ethereum' = Invoke(handlerGet(ethereum, prop), ethereum)
    /\ UNCHANGED <<page, now, dedupVars, tasks, hostErrors, calls, wsVars>>
    /\ lastAccess' = [prop |-> prop, called |-> TRUE,
                      result |-> handlerGet(ethereum, prop),
                      before |-> ethereum, after |-> ethereum',
                      logsStarted |-> Len(tasks') - Len(tasks)]

(***************************************************************************)
(* window.ethereum.request: the async function handler.get returns for     *)
(* 'request'.                                                              *)
(***************************************************************************)
Methods == {"eth_requestAccounts", "eth_sendTransaction", "personal_sign"}
Conventions == {"object", "twoArgs"}
Txs == {[from |-> <<65>>, to |-> <<99>>, value |-> 0],
        [from |-> <<98>>, to |-> <<99>>, value |-> 1]}
TxHashes == {<<104>>, <<105>>}
\* an error without a code is written with code 0
ErrorCodes == {4001, -32603, 0}

\* params: undefined, or an array whose first element is a transaction object
\* (with a from) or something else
NoParams == [defined |-> FALSE, hasTx |-> FALSE, tx |-> NoTxParams]
ParamsFor(method) ==
    CASE method = "eth_sendTransaction" -> {[defined |-> TRUE, hasTx |-> TRUE, tx |-> tx] : tx \in Txs}
      [] method = "personal_sign"       -> {[defined |-> TRUE, hasTx |-> FALSE, tx |-> NoTxParams]}
      [] OTHER                          -> {NoParams}

\* request({method, params}) or request(method, params)
MakeArgs(convention, method, params) ==
    IF convention = "twoArgs"
    THEN [arg0 |-> [isString |-> TRUE, string |-> method, method |-> "", params |-> NoParams],
          arg1 |-> params]
    ELSE [arg0 |-> [isString |-> FALSE, string |-> "", method |-> method, params |-> params],
          arg1 |-> NoParams]

arg0IsMethodString(args) == args.arg0.isString

\* a normalisation that reads the single-object convention only
methodOf_ObjectOnly(args) == args.arg0.method

methodOf(args) == IF arg0IsMethodString(args) THEN args.arg0.string ELSE args.arg0.method
paramsOf(args) == IF arg0IsMethodString(args) THEN args.arg1 ELSE args.arg0.params

\* results and errors of the real request
NoResult == [type |-> "undefined", accounts |-> <<>>, text |-> <<>>]
ResultsOf(method) ==
    CASE method = "eth_requestAccounts" ->
            {[type |-> "accounts", accounts |-> l, text |-> <<>>] : l \in AccountLists}
      [] method = "eth_sendTransaction" ->
            {[type |-> "string", accounts |-> <<>>, text |-> h] : h \in TxHashes}
      [] OTHER -> {[type |-> "string", accounts |-> <<>>, text |-> <<48>>]}

NoError == [id |-> 0, code |-> 0, type |-> ""]
TypeError == [id |-> 0, code |-> 0, type |-> "TypeError"]
Pending == [kind |-> "pending", value |-> NoResult, error |-> NoError]
Resolved(value) == [kind |-> "resolved", value |-> value, error |-> NoError]
Rejected(error) == [kind |-> "rejected", value |-> NoResult, error |-> error]

\* params[0].from.toLowerCase() can be evaluated
hasTxFrom(params) == params.defined /\ params.hasTx

\* the page calls request; the wrapper reads method and params and awaits the
\* real request
request(convention, method, params) ==
    /\ Len(calls) < MaxCalls
    /\ CanStartLog
    /\ calls' = Append(calls, [asked |-> [convention |-> convention, method |-> method,
                                          params |-> params],
                               args |-> MakeArgs(convention, method, params),
                               pc |-> "awaitReal", real |-> Pending, outcome |-> Pending])
    /\ UNCHANGED <<page, now, dedupVars, tasks, hostErrors, ethereum, lastAccess, wsVars>>

\* the wrapper awaits the log function it has called before it returns
Settle_AwaitsLog(c, real, outcome) ==
    calls' = [calls EXCEPT ![c].pc = IF tasks' = tasks THEN "settled" ELSE "awaitLog",
                           ![c].real = real,
                           ![c].outcome = IF tasks' = tasks THEN outcome ELSE Pending]

Settle(c, real, outcome) ==
    calls' = [calls EXCEPT ![c].pc = "settled", ![c].real = real, ![c].outcome = outcome]

\* the real request resolves with result
RealResolves(c, result) ==
    /\ c \in 1..Len(calls)
    /\ calls[c].pc = "awaitReal"
    /\ LET method == methodOf(calls[c].args)
           params == paramsOf(calls[c].args)
           src == [kind |-> "request", id |-> c]
       IN  /\ result \in ResultsOf(calls[c].asked.method)
           /\ IF method = "eth_requestAccounts"
              THEN IF result.accounts # <<>>
                   THEN /\ StartLog("logWalletConnect",
                                    InjectedWallet(toLowerCase(result.accounts[1])),
                                    NoTxParams, "PENDING", <<>>, src)
                        /\ Settle(c, Resolved(result), Resolved(result))
                   ELSE \* result[0].toLowerCase() is a TypeError; the catch finds no
                        \* code 4001 on it and the function returns undefined
                        /\ tasks' = tasks
                        /\ Settle(c, Resolved(result), Resolved(NoResult))
              ELSE IF method = "eth_sendTransaction"
              THEN IF hasTxFrom(params)
                   THEN /\ StartLog("logSendTransaction",
                                    InjectedWallet(toLowerCase(params.tx.from)),
                                    params.tx, "PENDING", result.text, src)
                        /\ Settle(c, Resolved(result), Resolved(result))
                   ELSE /\ tasks' = tasks
                        /\ Settle(c, Resolved(result), Resolved(NoResult))
              ELSE /\ tasks' = tasks
                   /\ Settle(c, Resolved(result), Resolved(result))
    /\ UNCHANGED <<page, now, dedupVars, hostErrors, ethereum, lastAccess, wsVars>>

\* the real request rejects with an error carrying code
RealRejects(c, code) ==
    /\ c \in 1..Len(calls)
    /\ calls[c].pc = "awaitReal"
    /\ LET params == paramsOf(calls[c].args)
           err == [id |-> c, code |-> code, type |-> "ProviderRpcError"]
           src == [kind |-> "request", id |-> c]
       IN  IF err.code # 0 /\ err.code = 4001
           THEN IF hasTxFrom(params)
                THEN /\ StartLog("logSendTransaction",
                                 InjectedWallet(toLowerCase(params.tx.from)),
                                 params.tx, "CANCELLED", <<>>, src)
                     /\ Settle(c, Rejected(err), Resolved(NoResult))
                ELSE \* params[0] or params[0].from.toLowerCase() is a TypeError,
                     \* thrown out of the catch block
                     /\ tasks' = tasks
                     /\ Settle(c, Rejected(err), Rejected(TypeError))
           ELSE \* the catch block ends and the function returns undefined
                /\ tasks' = tasks
                /\ Settle(c, Rejected(err), Resolved(NoResult))
    /\ UNCHANGED <<page, now, dedupVars, hostErrors, ethereum, lastAccess, wsVars>>

(***************************************************************************)
(* The accountsChanged listener of the injected provider.                  *)
(***************************************************************************)

accountsChangedListener(accounts) ==
    /\ CanStartLog
    /\ IF accounts = <<>>
       THEN \* accounts[0].toLowerCase() is a TypeError, thrown into the emitter
            /\ hostErrors' = hostErrors \cup {[kind |-> "exception", from |-> "accountsChangedListener"]}
            /\ tasks' = tasks
       ELSE /\ StartLog("logWalletConnect", InjectedWallet(toLowerCase(accounts[1])),
                        NoTxParams, "PENDING", <<>>, [kind |-> "accountsChanged", id |-> 0])
            /\ hostErrors' = hostErrors
    /\ UNCHANGED <<page, now, dedupVars, providerVars, wsVars>>

(***************************************************************************)
(* initializeWsProxy: the observers every socket gets.  A frame is written *)
(* by what parsing and decrypting it give: its envelope (not JSON, the     *)
(* JSON null, a WalletConnect frame of the session's topic, a Coinbase     *)
(* relay envelope, or another object), its payload (for WalletConnect) and *)
(* the decrypted body.                                                     *)
(***************************************************************************)
Ids == {1, 2}
chainlist == {1}
rejected == <<114, 101, 106, 101, 99, 116, 101, 100>>
\* "U rejected", "Rejected", and no message
Messages == {<<85, 32>> \o rejected, <<82, 101, 106, 101, 99, 116, 101, 100>>, <<>>}
WsTx == [from |-> <<65>>, to |-> <<99>>, value |-> 0]
WsHash == <<104>>

NoSession == [present |-> FALSE, chainId |-> 0, account |-> <<>>, peerName |-> "none"]
WcSessions ==
    {[present |-> TRUE, chainId |-> c, account |-> <<65>>, peerName |-> "metamask"] :
        c \in {1, 2}}
CbSessions ==
    {[present |-> TRUE, chainId |-> 1, account |-> <<65>>, peerName |-> "coinbase"]}

NoBody == [id |-> 0, kind |-> "none", method |-> "", tx |-> NoTxParams, chainId |-> 0,
           shouldSubmit |-> FALSE, result |-> <<>>, message |-> <<>>]
RequestBody(id, method, tx, chainId, shouldSubmit) ==
    [NoBody EXCEPT !.id = id, !.kind = "request", !.method = method, !.tx = tx,
                   !.chainId = chainId, !.shouldSubmit = shouldSubmit]
ResultBody(id, hash) == [NoBody EXCEPT !.id = id, !.kind = "result", !.result = hash]
ErrorBody(id, message) == [NoBody EXCEPT !.id = id, !.kind = "error", !.message = message]

Frame(envelope, payload, decrypts, body) ==
    [envelope |-> envelope, payload |-> payload, decrypts |-> decrypts, body |-> body]

PlainFrames ==
    {Frame("notJson", "none", FALSE, NoBody), Frame("null", "none", FALSE, NoBody),
     Frame("other", "none", FALSE, NoBody), Frame("wc", "notJson", FALSE, NoBody),
     Frame("wc", "null", FALSE, NoBody), Frame("wc", "ok", FALSE, NoBody),
     Frame("cb", "none", FALSE, NoBody)}

OutFrames ==
    PlainFrames
    \cup {Frame("wc", "ok", TRUE, RequestBody(1, "eth_sendTransaction", WsTx, 0, FALSE)),
          Frame("wc", "ok", TRUE, RequestBody(1, "personal_sign", NoTxParams, 0, FALSE))}
    \cup {Frame("cb", "none", TRUE, RequestBody(1, "signEthereumTransaction", WsTx, 1, s)) :
            s \in BOOLEAN}

InFrames ==
    PlainFrames
    \cup {Frame("wc", "ok", TRUE, ResultBody(id, WsHash)) : id \in Ids}
    \cup {Frame("wc", "ok", TRUE, ErrorBody(id, m)) : id \in Ids, m \in Messages}
    \cup {Frame("cb", "none", TRUE, ResultBody(id, WsHash)) : id \in Ids}
    \cup {Frame("cb", "none", TRUE, ErrorBody(id, m)) : id \in Ids, m \in Messages \ {<<>>}}

\* afterSend: the frame was delivered after send returned for the request of
\* the same id that the listener would match it with (history)
NoRun == [dir |-> "none", via |-> "none", frame |-> Frame("other", "none", FALSE, NoBody),
          afterSend |-> FALSE]
Run(dir, via, frame) == [dir |-> dir, via |-> via, frame |-> frame, afterSend |-> FALSE]

\* wsMessages.has / wsMessages.set
Has(messages, id) == id \in DOMAIN messages
Set(messages, id, txData) ==
    [k \in DOMAIN messages \cup {id} |-> IF k = id THEN txData ELSE messages[k]]

chainIdToWeb3Provider(chainId) == IF chainId \in chainlist THEN "Web3HttpProvider" ELSE "null"

\* the frames are still forwarded, the frames that cannot be parsed are not
proxiedSend_DropsUnparsed(frame, wc, cb) ==
    IF frame.envelope = "notJson" \/ (frame.envelope = "wc" /\ wc.present /\ frame.payload = "notJson")
    THEN [forwarded |-> <<>>, run |-> NoRun]
    ELSE IF frame.envelope = "wc" /\ wc.present /\ frame.payload = "ok"
    THEN [forwarded |-> <<frame>>, run |-> Run("out", "wc", frame)]
    ELSE IF frame.envelope = "cb" /\ cb.present
    THEN [forwarded |-> <<frame>>, run |-> Run("out", "cb", frame)]
    ELSE [forwarded |-> <<frame>>, run |-> NoRun]

\* proxiedSend: the frames handed to originalSend and the decrypt promise started
proxiedSend(frame, wc, cb) ==
    IF frame.envelope = "notJson"
    THEN \* JSON.parse throws; the catch forwards
         [forwarded |-> <<frame>>, run |-> NoRun]
    ELSE IF frame.envelope = "null"
    THEN [forwarded |-> <<frame>>, run |-> NoRun]
    ELSE IF frame.envelope = "wc" /\ wc.present
    THEN \* messageObj.payload && messageObj.topic === wcObject?.peerId
         IF frame.payload = "notJson"
         THEN [forwarded |-> <<frame>>, run |-> NoRun]
         ELSE IF frame.payload = "null"
         THEN [forwarded |-> <<frame>>, run |-> NoRun]
         ELSE [forwarded |-> <<frame>>, run |-> Run("out", "wc", frame)]
    ELSE IF frame.envelope = "cb"
    THEN \* type PublishEvent, event Web3Request, data
         IF ~cb.present
         THEN [forwarded |-> <<frame>>, run |-> NoRun]
         ELSE [forwarded |-> <<frame>>, run |-> Run("out", "cb", frame)]
    ELSE [forwarded |-> <<frame>>, run |-> NoRun]

\* every decrypted request with an id is stored
onOutboundDecrypted_StoresAny(via, decrypted, messages) ==
    IF decrypted.id # 0 /\ decrypted.kind = "request"
    THEN Set(messages, decrypted.id, [tx |-> decrypted.tx, chainId |-> decrypted.chainId])
    ELSE messages

\* the .then callbacks of proxiedSend: the pending map afterwards
onOutboundDecrypted(via, decrypted, messages) ==
    IF via = "wc"
    THEN IF decrypted.id # 0 /\ decrypted.method # "" /\ decrypted.method = "eth_sendTransaction"
         THEN Set(messages, decrypted.id, [tx |-> decrypted.tx, chainId |-> 0])
         ELSE messages
    ELSE IF decrypted.id # 0 /\ decrypted.kind = "request"
         THEN IF decrypted.method = "signEthereumTransaction" /\ decrypted.shouldSubmit
              THEN Set(messages, decrypted.id,
                       [tx |-> decrypted.tx, chainId |-> decrypted.chainId])
              ELSE messages
         ELSE messages

\* the message listener up to its first await
onMessage(frame, wc, cb) ==
    IF frame.envelope = "notJson"
    THEN [end |-> "throw", run |-> NoRun]
    ELSE IF frame.envelope = "null"
    THEN [end |-> "return", run |-> NoRun]
    ELSE IF frame.envelope = "wc" /\ wc.present
    THEN \* messageObj.payload && messageObj.topic === wcObject?.clientId
         IF frame.payload = "notJson"
         THEN [end |-> "throw", run |-> NoRun]
         ELSE IF frame.payload = "null"
         THEN [end |-> "return", run |-> NoRun]
         ELSE [end |-> "await", run |-> Run("in", "wc", frame)]
    ELSE IF frame.envelope = "cb"
    THEN \* type Event, event Web3Response, data
         IF ~cb.present
         THEN [end |-> "return", run |-> NoRun]
         ELSE [end |-> "await", run |-> Run("in", "cb", frame)]
    ELSE [end |-> "return", run |-> NoRun]

NoLog == [status |-> "none", hash |-> <<>>]

\* every error frame of a pending id is taken for a cancellation
onInboundDecrypted_AnyError(via, decrypted, messages) ==
    IF decrypted.id # 0 /\ Has(messages, decrypted.id)
    THEN IF decrypted.kind = "error"
         THEN [status |-> "CANCELLED", hash |-> <<>>]
         ELSE [status |-> "PENDING", hash |-> decrypted.result]
    ELSE NoLog

\* the message listener after the payload is decrypted: the call of
\* logSendTransaction it makes
onInboundDecrypted(via, decrypted, messages) ==
    IF decrypted.id # 0 /\ Has(messages, decrypted.id)
    THEN IF via = "wc"
         THEN IF decrypted.kind = "error"
              THEN IF decrypted.message # <<>> /\ includes(decrypted.message, rejected)
                   THEN [status |-> "CANCELLED", hash |-> <<>>]
                   ELSE NoLog
              ELSE [status |-> "PENDING", hash |-> decrypted.result]
         ELSE IF decrypted.message # <<>>
              THEN IF includes(decrypted.message, rejected)
                   THEN [status |-> "CANCELLED", hash |-> <<>>]
                   ELSE NoLog
              ELSE [status |-> "PENDING", hash |-> decrypted.result]
    ELSE NoLog

NoWallet == [type |-> "none", wallet |-> <<>>, walletProvider |-> "none", providerNull |-> TRUE]

\* the walletResult the listener passes to logSendTransaction
BridgeWallet(via, txData, wc) ==
    IF via = "wc"
    THEN [type |-> "walletconnect", wallet |-> toLowerCase(txData.tx.from),
          walletProvider |-> wc.peerName,
          providerNull |-> chainIdToWeb3Provider(wc.chainId) = "null"]
    ELSE [type |-> "coinbase", wallet |-> toLowerCase(txData.tx.from),
          walletProvider |-> "coinbase",
          providerNull |-> chainIdToWeb3Provider(txData.chainId) = "null"]

\* fetchWallet with no injected provider and at most one bridge session
fetchWallet(wc, cb) ==
    IF wc.present
    THEN [type |-> "walletconnect", wallet |-> toLowerCase(wc.account),
          walletProvider |-> wc.peerName,
          providerNull |-> chainIdToWeb3Provider(wc.chainId) = "null"]
    ELSE IF cb.present
    THEN [type |-> "coinbase", wallet |-> toLowerCase(cb.account),
          walletProvider |-> "coinbase", providerNull |-> FALSE]
    ELSE NoWallet

\* a promise of the observers rejects with nothing handling it: the page sees
\* an unhandled rejection, and window.onunhandledrejection calls logErrors
onunhandledrejection(from) ==
    /\ hostErrors' = hostErrors \cup {[kind |-> "unhandledrejection", from |-> from]}
    /\ tasks' = Append(tasks,
            [NewTask("logErrors", fetchWallet(wcObject, cbObject), NoTxParams, "PENDING",
                     <<>>, [kind |-> "unhandledrejection", id |-> 0])
             EXCEPT !.errors = <<69>>])

\* a frame may still arrive: each one may start one log function
CanCarryFrame == Len(tasks) + Cardinality(wsRuns) < MaxTasks

NoSend == [frame |-> Frame("other", "none", FALSE, NoBody), forwarded |-> <<>>, called |-> FALSE,
           threw |-> FALSE]
NoMessage == [frame |-> Frame("other", "none", FALSE, NoBody), via |-> "none",
              seen |-> FALSE, wasPending |-> FALSE, wasConsumed |-> FALSE, afterSend |-> FALSE,
              before |-> <<>>, after |-> <<>>, started |-> 0, task |-> 0]

\* originalSend.apply(this, arguments) as proxiedSend reaches it: every return
\* of the try block is inside the try, so an original send that throws there
\* (a socket that is not open yet) lands in the catch, which applies it again;
\* when JSON.parse threw first, the catch holds the only application
originalSendApplied(frame, wc, throws, forwarded) ==
    LET parseThrew == \/ frame.envelope = "notJson"
                      \/ frame.envelope = "wc" /\ wc.present /\ frame.payload = "notJson"
    IN  IF throws /\ ~parseThrew THEN forwarded \o forwarded ELSE forwarded

\* the page (or a wallet library) calls ws.send(frame); throws tells whether
\* the socket's original send throws for it
send(frame, throws) ==
    /\ CanCarryFrame
    /\ LET sent == proxiedSend(frame, wcObject, cbObject)
       IN  /\ lastSend' = [frame |-> frame,
                           forwarded |-> originalSendApplied(frame, wcObject, throws,
                                                             sent.forwarded),
                           called |-> TRUE, threw |-> throws]
           /\ wsRuns' = IF sent.run.dir = "none" THEN wsRuns ELSE wsRuns \cup {sent.run}
    /\ lastMessage' = NoMessage
    /\ UNCHANGED <<page, now, dedupVars, tasks, hostErrors, providerVars,
                   wcObject, cbObject, wsMessages, consumed>>

\* the decrypt promise of an outbound frame settles (promises of equal frames
\* are not told apart)
OutboundDecrypted(run) ==
    /\ run \in wsRuns
    /\ run.dir = "out"
    /\ wsRuns' = wsRuns \ {run}
    /\ IF run.frame.decrypts
       THEN /\ wsMessages' = onOutboundDecrypted(run.via, run.frame.body, wsMessages)
            /\ UNCHANGED <<tasks, hostErrors>>
       ELSE /\ onunhandledrejection("proxiedSend: decrypt")
            /\ wsMessages' = wsMessages
    /\ UNCHANGED <<page, now, dedupVars, providerVars,
                   wcObject, cbObject, consumed, lastSend, lastMessage>>

Inspected(frame, via) ==
    [frame |-> frame, via |-> via, seen |-> TRUE,
     wasPending |-> frame.decrypts /\ Has(wsMessages, frame.body.id),
     wasConsumed |-> frame.decrypts /\ frame.body.id \in consumed,
     afterSend |-> FALSE,
     before |-> wsMessages, after |-> wsMessages',
     started |-> Len(tasks') - Len(tasks),
     task |-> IF Len(tasks') > Len(tasks) THEN Len(tasks') ELSE 0]

\* send has returned for a request with this id whose .then callback stores
\* (or has stored) the pending entry
RequestSent(via, id) ==
    \/ Has(wsMessages, id)
    \/ \E run \in wsRuns :
          /\ run.dir = "out" /\ run.via = via /\ run.frame.decrypts
          /\ Has(onOutboundDecrypted(via, run.frame.body, <<>>), id)

\* a socket delivers frame to the message listener
message(frame) ==
    /\ CanCarryFrame
    /\ wsMessages' = wsMessages
    /\ lastSend' = NoSend
    /\ LET got == onMessage(frame, wcObject, cbObject)
       IN  /\ IF got.end = "throw"
              THEN onunhandledrejection("message: JSON.parse")
              ELSE UNCHANGED <<tasks, hostErrors>>
           /\ IF got.end = "await"
              THEN /\ wsRuns' = wsRuns \cup
                          {[got.run EXCEPT !.afterSend = /\ frame.decrypts
                                                         /\ RequestSent(got.run.via, frame.body.id)]}
                   /\ lastMessage' = NoMessage
              ELSE /\ wsRuns' = wsRuns
                   /\ lastMessage' = Inspected([frame EXCEPT !.decrypts = FALSE], "none")
    /\ UNCHANGED <<page, now, dedupVars, providerVars, wcObject, cbObject, consumed>>

\* the decrypt promise of an inbound frame settles and the listener goes on
InboundDecrypted(run) ==
    /\ run \in wsRuns
    /\ run.dir = "in"
    /\ wsRuns' = wsRuns \ {run}
    /\ wsMessages' = wsMessages
    /\ lastSend' = NoSend
    /\ IF run.frame.decrypts
       THEN LET decrypted == run.frame.body
                log == onInboundDecrypted(run.via, decrypted, wsMessages)
            IN  /\ IF log.status = "none"
                   THEN tasks' = tasks
                   ELSE StartLog("logSendTransaction",
                                 BridgeWallet(run.via, wsMessages[decrypted.id], wcObject),
                                 wsMessages[decrypted.id].tx, log.status, log.hash,
                                 [kind |-> "message", id |-> decrypted.id])
                /\ consumed' = IF decrypted.id # 0 /\ Has(wsMessages, decrypted.id)
                               THEN consumed \cup {decrypted.id}
                               ELSE consumed
                /\ hostErrors' = hostErrors
       ELSE /\ onunhandledrejection("message: decrypt")
            /\ consumed' = consumed
    /\ lastMessage' = [Inspected(run.frame, run.via) EXCEPT !.afterSend = run.afterSend]
    /\ UNCHANGED <<page, now, dedupVars, providerVars, wcObject, cbObject>>

(***************************************************************************)
(* The page load: the module is evaluated, the bundle entry or the host    *)
(* calls attach, and the page reads and writes window.ethereum and opens   *)
(* sockets.                                                                *)
(***************************************************************************)
MaxAttach == 2
MaxLayers == 2
MaxRun == 3

\* the page once the module is evaluated: entry is the bundle (bundle.ts) or an
\* import of attach by the host; provider is window.ethereum as captured then
LoadedPage(entry, injected) ==
    [entry |-> entry,
     provider |-> injected,      \* let provider: TRUE while it holds the injected object
     proxy |-> 0,                \* let proxy: undefined (0) or the Proxy, as handler layers
     installs |-> 0,             \* calls of initializeProviderProxy
     WebSocket |-> 0,            \* ProxiedWebSocket layers around the native constructor
     chainlist |-> FALSE,        \* the registry is loaded
     listeners |-> FALSE,        \* url-change, storage and provider listeners are added
     hooks |-> FALSE,            \* window.onerror and window.onunhandledrejection are set
     landed |-> 0,               \* calls of logUserLanded made by attach
     dom |-> FALSE,              \* the DOMContentLoaded listener of the bundle has run
     attach |-> "none",          \* the last call of attach: none, fetchChainlist, returned, rejected
     attaches |-> 0,             \* calls of attach
     wroteBack |-> FALSE,        \* the proxy itself was written to window.ethereum (history)
     socket |-> [created |-> FALSE, observers |-> 0, sendWrappers |-> 0, attach |-> "none"],
                                 \* the last socket created: its message listeners and the
                                 \* wrappers around its send; attach as it was then (history)
     read |-> [made |-> FALSE, handlerRuns |-> 0, touches |-> 0, installs |-> 0],
                                 \* the last pass-through read: runs of handler.get, reads of
                                 \* the injected object, installs made before it (history)
     global |-> IF injected THEN "injected" ELSE "none",
                                 \* the object held by the data property window.ethereum
                                 \* until the accessor replaces it
     atInstall |-> "none",       \* global as it was when the accessor was first defined
     target |-> "none",          \* the provider object the Proxy forwards to in the end
     lastSet |-> "none",         \* the provider object last given to the setter (history)
     returned |-> FALSE,         \* the Proxy held by proxy has been returned by a read
     touched |-> FALSE,          \* the accessor has been read or written
     dispatch |-> [pc |-> "none", layers |-> 0, real |-> 0, started |-> 0],
                                 \* the request dispatched through window.ethereum: the
                                 \* handler layers it passes, the calls of the provider's
                                 \* own request, the log functions started (history)
     got |-> [made |-> FALSE, first |-> FALSE, atInstall |-> "none", wrapper |-> FALSE,
              target |-> "none", created |-> FALSE, again |-> FALSE, lastSet |-> "none"],
                                 \* the last read of window.ethereum: whether it was the
                                 \* first use of the accessor, whether it returned a
                                 \* Proxy and around which object, whether it built that
                                 \* Proxy, whether an earlier read had returned the Proxy
                                 \* held before it (history)
     userId |-> 0,               \* localStorage[PF_SDK_USER_KEY], 0 when there is none
     awaitingGetProvider |-> 0,  \* calls of addProviderListeners suspended at await getProvider()
     bound |-> 0,                \* calls of addProviderListeners that have ended
     registrations |-> 0,        \* accountsChangedListener entries among the provider's listeners
     emitted |-> [made |-> FALSE, accounts |-> <<>>, bound |-> 0, started |-> 0],
                                 \* the last accountsChanged notification: the calls of
                                 \* logWalletConnect it led to, and the calls of
                                 \* addProviderListeners ended before it (history)
     probes |-> {},              \* the brand probes window.ethereum (and the page) answer to
     names |-> <<>>,             \* what the calls of getProviderNameForMetamask returned
     walletlink |-> [sessionId |-> [null |-> TRUE, text |-> <<>>],
                     linked |-> [null |-> TRUE, text |-> <<>>],
                     defaultChainId |-> [null |-> TRUE, text |-> <<>>],
                     defaultJsonRpcUrl |-> [null |-> TRUE, text |-> <<>>],
                     sessionSecret |-> [null |-> TRUE, text |-> <<>>],
                     Addresses |-> [null |-> TRUE, text |-> <<>>]],
                                 \* localStorage['-walletlink:https://www.walletlink.org:...']
     fetched |-> [made |-> FALSE, before |-> FALSE,
                  newAddressesValue |-> [null |-> TRUE, text |-> <<>>],
                  storage |-> [sessionId |-> [null |-> TRUE, text |-> <<>>],
                               linked |-> [null |-> TRUE, text |-> <<>>],
                               defaultChainId |-> [null |-> TRUE, text |-> <<>>],
                               defaultJsonRpcUrl |-> [null |-> TRUE, text |-> <<>>],
                               sessionSecret |-> [null |-> TRUE, text |-> <<>>],
                               Addresses |-> [null |-> TRUE, text |-> <<>>]]],
                                 \* the last call of fetchCbObject: whether there was a
                                 \* session, its argument, the items it read (history)
     assigned |-> 0,             \* the id of the last response processed (history)
     setItem |-> "native",       \* what localStorage.setItem is: native or wrapper
     engineWrote |-> {},         \* the localStorage keys the SDK has written (history)
     stored |-> [made |-> FALSE, key |-> "none", value |-> <<>>, times |-> 0],
                                 \* the last setItem call of the host: its arguments and
                                 \* the calls of the native setItem it led to (history)
     lastBuilt |-> [userId |-> 0, assigned |-> 0]]
                                 \* the user id of the event built last, and the id the
                                 \* last response had assigned by then (history)

\* new window.WebSocket(...) where layers ProxiedWebSocket functions wrap the
\* native constructor: each builds the socket with the constructor it captured,
\* adds its message listener and replaces send
RECURSIVE ProxiedWebSocket(_)
ProxiedWebSocket(layers) ==
    IF layers = 0
    THEN [created |-> TRUE, observers |-> 0, sendWrappers |-> 0, attach |-> "none"]
    ELSE LET ws == ProxiedWebSocket(layers - 1)
         IN  [ws EXCEPT !.observers = @ + 1, !.sendWrappers = @ + 1]

\* a pass-through property read on layers nested Proxy objects: handler.get of
\* each layer reflects the read to its target, down to the injected object
RECURSIVE PassThrough(_)
PassThrough(layers) ==
    IF layers = 0
    THEN [made |-> TRUE, handlerRuns |-> 0, touches |-> 1, installs |-> 0]
    ELSE LET inner == PassThrough(layers - 1)
         IN  [inner EXCEPT !.handlerRuns = @ + 1]

\* initializeWsProxy(): window.WebSocket becomes a ProxiedWebSocket around the
\* constructor found there
initializeWsProxy(p) == [p EXCEPT !.WebSocket = @ + 1]

\* each install wraps the proxy once more
initializeProviderProxy_Rewraps(p) ==
    [p EXCEPT !.installs = @ + 1, !.proxy = IF @ > 0 THEN @ + 1 ELSE @,
              !.atInstall = IF p.installs = 0 THEN p.global ELSE @]

\* initializeProviderProxy(): defines the accessor in place of the property
\* found on window; proxy and provider are the module's variables and stay as
\* they are
initializeProviderProxy(p) ==
    [p EXCEPT !.installs = @ + 1, !.atInstall = IF p.installs = 0 THEN p.global ELSE @]

\* the getter of window.ethereum
ethereumGetter(p) ==
    IF p.proxy = 0 /\ p.provider
    THEN [p EXCEPT !.proxy = 1, !.provider = FALSE, !.target = "injected", !.returned = FALSE]
    ELSE p

\* the DOMContentLoaded listener of the bundle
DOMContentLoaded ==
    /\ page.entry = "bundle" /\ ~page.dom
    /\ page' = [initializeWsProxy(page) EXCEPT !.dom = TRUE]
    /\ UNCHANGED <<now, dedupVars, tasks, hostErrors, providerVars, wsVars>>

\* attach(apiKey) up to await fetchChainlist(): called by the load listener of the
\* bundle, or by the host
attach ==
    /\ page.attach # "fetchChainlist"
    /\ page.attaches < MaxAttach
    /\ page.entry = "bundle" => page.dom /\ page.attaches = 0
    /\ page' = [page EXCEPT !.attach = "fetchChainlist", !.attaches = @ + 1]
    /\ UNCHANGED <<now, dedupVars, tasks, hostErrors, providerVars, wsVars>>

\* fetchChainlist() returns and attach runs to its end
fetchChainlistReturns ==
    /\ page.attach = "fetchChainlist"
    /\ page' = [initializeWsProxy(initializeProviderProxy(page))
                    EXCEPT !.chainlist = TRUE, !.listeners = TRUE, !.landed = @ + 1,
                           !.hooks = TRUE, !.attach = "returned"]
    /\ UNCHANGED <<now, dedupVars, tasks, hostErrors, providerVars, wsVars>>

\* fetch or response.json() rejects in fetchChainlist: attach has no catch, so
\* its promise rejects, and neither caller handles it
fetchChainlistThrows ==
    /\ page.attach = "fetchChainlist"
    /\ page' = [page EXCEPT !.attach = "rejected"]
    /\ IF page.hooks
       THEN onunhandledrejection("attach")
       ELSE /\ hostErrors' = hostErrors \cup {[kind |-> "unhandledrejection", from |-> "attach"]}
            /\ tasks' = tasks
    /\ UNCHANGED <<now, dedupVars, providerVars, wsVars>>

\* the page creates a socket
NewWebSocket ==
    /\ page' = [page EXCEPT !.socket = [ProxiedWebSocket(page.WebSocket)
                                            EXCEPT !.attach = page.attach]]
    /\ UNCHANGED <<now, dedupVars, tasks, hostErrors, providerVars, wsVars>>

\* the page reads a pass-through property of window.ethereum: of the injected
\* object before the accessor is defined, through the getter afterwards
\* (there is no pass-through read when window.ethereum is undefined)
EthereumGet ==
    /\ page' = IF page.installs = 0
               THEN [page EXCEPT
                        !.read = IF page.global = "none" THEN @ ELSE PassThrough(0),
                        !.got = [made |-> TRUE, first |-> FALSE, atInstall |-> "none",
                                 wrapper |-> FALSE, target |-> page.global,
                                 created |-> FALSE, again |-> FALSE, lastSet |-> "none"]]
               ELSE LET q == ethereumGetter(page)
                    IN  [q EXCEPT
                            !.read = IF q.proxy = 0 THEN @
                                     ELSE [PassThrough(q.proxy) EXCEPT !.installs = page.installs],
                            !.returned = q.proxy > 0,
                            !.touched = TRUE,
                            !.got = [made |-> TRUE, first |-> ~page.touched,
                                     atInstall |-> page.atInstall,
                                     wrapper |-> q.proxy > 0, target |-> q.target,
                                     created |-> q.proxy # page.proxy,
                                     again |-> page.returned, lastSet |-> page.lastSet]]
    /\ UNCHANGED <<now, dedupVars, tasks, hostErrors, providerVars, wsVars>>

\* the setter builds a Proxy only while there is none
EthereumSet_KeepsFirst(value) ==
    /\ value = "proxy" => page.installs > 0 /\ page.proxy > 0 /\ page.proxy < MaxLayers
    /\ page' = IF page.installs = 0
               THEN [page EXCEPT !.global = value]
               ELSE IF value = "proxy"
               THEN [page EXCEPT !.proxy = @ + 1, !.wroteBack = TRUE,
                                 !.returned = FALSE, !.touched = TRUE]
               ELSE [page EXCEPT !.proxy = IF @ = 0 THEN 1 ELSE @,
                                 !.target = IF page.proxy = 0 THEN value ELSE @,
                                 !.lastSet = value,
                                 !.returned = IF page.proxy = 0 THEN FALSE ELSE @,
                                 !.touched = TRUE]
    /\ UNCHANGED <<now, dedupVars, tasks, hostErrors, providerVars, wsVars>>

\* window.ethereum = value: value is a provider object, or the proxy the page
\* has read from window.ethereum. The assignment runs the setter once the
\* accessor is defined, and before that it changes the data property
EthereumSet(value) ==
    /\ value = "proxy" => page.installs > 0 /\ page.proxy > 0 /\ page.proxy < MaxLayers
    /\ page' = IF page.installs = 0
               THEN [page EXCEPT !.global = value]
               ELSE IF value = "proxy"
               THEN [page EXCEPT !.proxy = @ + 1, !.wroteBack = TRUE,
                                 !.returned = FALSE, !.touched = TRUE]
               ELSE [page EXCEPT !.proxy = 1, !.target = value, !.lastSet = value,
                                 !.returned = FALSE, !.touched = TRUE]
    /\ UNCHANGED <<now, dedupVars, tasks, hostErrors, providerVars, wsVars>>

InitPage ==
    /\ now = StartTime
    /\ PF_EVENTS_HASH_MAP = <<>>
    /\ gqlCalls = <<>>
    /\ checkLog = <<>>
    /\ tasks = <<>>
    /\ hostErrors = {}
    /\ ethereum = [present |-> TRUE, listeners |-> 0]
    /\ calls = <<>>
    /\ lastAccess = NoAccess
    /\ page \in {LoadedPage(entry, injected) : entry \in {"bundle", "import"}, injected \in BOOLEAN}
    /\ wcObject = NoSession
    /\ cbObject = NoSession
    /\ wsMessages = <<>>
    /\ wsRuns = {}
    /\ consumed = {}
    /\ lastSend = NoSend
    /\ lastMessage = NoMessage

NextPage ==
    \/ DOMContentLoaded
    \/ attach
    \/ fetchChainlistReturns
    \/ fetchChainlistThrows
    \/ NewWebSocket
    \/ EthereumGet
    \/ \E value \in {"provider", "other", "proxy"} : EthereumSet(value)

SpecPage == InitPage /\ [][NextPage]_vars

\* the page calls window.ethereum.request({method: 'eth_requestAccounts'}): the
\* getter returns the Proxy, handler.get of its outermost layer returns the
\* wrapper, and Reflect.get(target, prop, receiver)(...args) runs the wrapper
\* of every layer below it and, at the end, the provider's own request once
ethereumRequest ==
    /\ page.installs > 0
    /\ page.dispatch.pc = "none"
    /\ LET q == ethereumGetter(page)
       IN  /\ q.proxy > 0
           /\ page' = [q EXCEPT !.returned = TRUE, !.touched = TRUE,
                                !.dispatch = [pc |-> "awaitReal", layers |-> q.proxy,
                                              real |-> 1, started |-> 0]]
    /\ UNCHANGED <<now, dedupVars, tasks, hostErrors, providerVars, wsVars>>

\* the provider's request resolves with accounts: the await of every layer's
\* wrapper resolves with them, innermost first, and each calls logWalletConnect
ethereumRequestResolves(accounts) ==
    /\ page.dispatch.pc = "awaitReal"
    /\ Len(tasks) + page.dispatch.layers <= MaxTasks
    /\ tasks' = tasks \o [k \in 1..page.dispatch.layers |->
                    NewTask("logWalletConnect", InjectedWallet(toLowerCase(accounts)),
                            NoTxParams, "PENDING", <<>>, [kind |-> "request", id |-> 0])]
    /\ page' = [page EXCEPT !.dispatch.pc = "settled",
                            !.dispatch.started = Len(tasks') - Len(tasks)]
    /\ UNCHANGED <<now, dedupVars, hostErrors, providerVars, wsVars>>

\* the page load with a request made through the wallet property
NextLayers ==
    \/ DOMContentLoaded
    \/ attach
    \/ fetchChainlistReturns
    \/ EthereumGet
    \/ \E value \in {"provider", "other", "proxy"} : EthereumSet(value)
    \/ ethereumRequest
    \/ \E accounts \in Accounts : ethereumRequestResolves(accounts)

SpecLayers == InitPage /\ [][NextLayers]_vars

(***************************************************************************)
(* logUserLanded and logErrors: one event per wallet fetchWallet returns.  *)
(***************************************************************************)
\* getProvider and fetchWallet: the WalletConnect session, the Coinbase session
\* and the injected provider, in this order; accounts is what eth_accounts
\* gives through the request proxy
walletsList(wc, cb, injected, accounts) ==
    (IF wc.present
     THEN <<[type |-> "walletconnect", wallet |-> toLowerCase(wc.account),
             walletProvider |-> wc.peerName,
             providerNull |-> chainIdToWeb3Provider(wc.chainId) = "null"]>>
     ELSE <<>>)
    \o (IF cb.present
        THEN <<[type |-> "coinbase", wallet |-> toLowerCase(cb.account),
                walletProvider |-> "coinbase", providerNull |-> FALSE]>>
        ELSE <<>>)
    \o (IF injected
        THEN <<InjectedWallet(IF accounts = <<>> THEN <<>> ELSE toLowerCase(accounts[1]))>>
        ELSE <<>>)

\* logUserLanded() or logErrors(errors) is called and runs up to await
\* fetchWallet(); here one call has ended before the next is made
logPageEvent(fn) ==
    /\ Len(tasks) < MaxTasks
    /\ \A t \in 1..Len(tasks) : tasks[t].pc \in {"done", "caught", "caughtBuilding"}
    /\ tasks' = Append(tasks,
                    [NewTask(fn, NoWallet, NoTxParams, "PENDING", <<>>, [kind |-> "page", id |-> 0])
                        EXCEPT !.pc = "fetchWallet",
                               !.errors = IF fn = "logErrors" THEN <<69>> ELSE <<>>])
    /\ UNCHANGED <<page, now, dedupVars, hostErrors, providerVars, wsVars>>

\* fetchWallet returns: with no wallet the one event is built at once, with
\* getDeviceState(null) and no chain state; else the loop over walletsList starts
fetchWalletReturns(t, accounts) ==
    /\ t \in 1..Len(tasks)
    /\ tasks[t].pc = "fetchWallet"
    /\ ethereum.present \/ accounts = <<>>
    /\ LET list == walletsList(wcObject, cbObject, ethereum.present, accounts)
       IN  tasks' = IF list = <<>>
                    THEN [tasks EXCEPT ![t].pc = "submit", ![t].i = 1,
                                       ![t].events = <<buildEvent(tasks[t], NoChainState)>>]
                    ELSE [tasks EXCEPT ![t].pc = "build", ![t].i = 1, ![t].walletsList = list]
    /\ UNCHANGED <<page, now, dedupVars, hostErrors, providerVars, wsVars>>

\* await getChainState(walletsList[i]) returns (null for a wallet without an
\* address): the event of this wallet is built and pushed
getChainStateReturns(t, blockHeight) ==
    /\ t \in 1..Len(tasks)
    /\ tasks[t].pc = "build"
    /\ LET walletResult == tasks[t].walletsList[tasks[t].i]
           chainState == IF walletResult.wallet = <<>>
                         THEN NoChainState
                         ELSE [present |-> TRUE, walletAddress |-> walletResult.wallet,
                               blockHeight |-> blockHeight]
           eventData == buildEvent([tasks[t] EXCEPT !.walletResult = walletResult], chainState)
           last == tasks[t].i = Len(tasks[t].walletsList)
       IN  /\ IF walletResult.wallet = <<>>
              THEN blockHeight = 0
              ELSE ~walletResult.providerNull /\ blockHeight \in ReadsOf(walletResult)
           /\ tasks' = [tasks EXCEPT ![t].events = Append(@, eventData),
                                     ![t].i = IF last THEN 1 ELSE @ + 1,
                                     ![t].pc = IF last THEN "submit" ELSE "build"]
    /\ UNCHANGED <<page, now, dedupVars, hostErrors, providerVars, wsVars>>

\* await getChainState(walletsList[i]) throws: provider is null or the RPC call of
\* a bridge wallet fails; the catch around the whole function logs it
getChainStateThrows(t) ==
    /\ t \in 1..Len(tasks)
    /\ tasks[t].pc = "build"
    /\ LET walletResult == tasks[t].walletsList[tasks[t].i]
       IN  walletResult.wallet # <<>> /\ walletResult.type # "injected"
    /\ tasks' = [tasks EXCEPT ![t].pc = "caughtBuilding"]
    /\ UNCHANGED <<page, now, dedupVars, hostErrors, providerVars, wsVars>>

\* the timestamp is read before a suspension and written after it: a call
\* that another call overtook in between decides on the record it read before
submitEvent_Suspended(t) ==
    /\ t \in 1..Len(tasks)
    /\ tasks[t].pc = "submit"
    /\ LET overtaken == \E k \in 1..Len(tasks) : k > t /\ tasks[k].sub # 0
           fresh == checkShouldLogEvent(PF_EVENTS_HASH_MAP, tasks[t].events[tasks[t].i], now)
           check == IF overtaken
                    THEN [fresh EXCEPT !.shouldBeLogged =
                            checkShouldLogEvent(<<>>, tasks[t].events[tasks[t].i], now).shouldBeLogged]
                    ELSE fresh
           sub == Len(checkLog) + 1
           last == tasks[t].i = Len(tasks[t].events)
           polling == \E k \in 1..Len(tasks) :
                           k # t /\ tasks[k].pc = "waitMined" /\ tasks[k].polls > 0
       IN  /\ PF_EVENTS_HASH_MAP' = check.stored
           /\ checkLog' = Append(checkLog, [hash |-> check.eventHash,
                                            event |-> tasks[t].events[tasks[t].i],
                                            time |-> now, shouldBeLogged |-> check.shouldBeLogged,
                                            task |-> t])
           /\ IF check.shouldBeLogged
              THEN /\ gqlCalls' = Append(gqlCalls, [mutation |-> mutationOf(tasks[t].fn),
                                                    sub |-> sub, task |-> t,
                                                    newStatus |-> "none"])
                   /\ tasks' = [tasks EXCEPT ![t].pc = "awaitCreateInLoop", ![t].sub = sub,
                                             ![t].overlapped = polling]
              ELSE /\ gqlCalls' = gqlCalls
                   /\ tasks' = [tasks EXCEPT ![t].pc = IF last THEN "done" ELSE "submit",
                                             ![t].i = IF last THEN @ ELSE @ + 1,
                                             ![t].sub = sub,
                                             ![t].overlapped = polling]
    /\ UNCHANGED <<page, now, hostErrors, providerVars, wsVars>>

\* the second loop: checkShouldLogEvent(events[i]) and, when it says so, the
\* request to the backend
submitEvent(t) ==
    /\ t \in 1..Len(tasks)
    /\ tasks[t].pc = "submit"
    /\ LET check == checkShouldLogEvent(PF_EVENTS_HASH_MAP, tasks[t].events[tasks[t].i], now)
           sub == Len(checkLog) + 1
           last == tasks[t].i = Len(tasks[t].events)
           polling == \E k \in 1..Len(tasks) :
                           k # t /\ tasks[k].pc = "waitMined" /\ tasks[k].polls > 0
       IN  /\ PF_EVENTS_HASH_MAP' = check.stored
           /\ checkLog' = Append(checkLog, [hash |-> check.eventHash,
                                            event |-> tasks[t].events[tasks[t].i],
                                            time |-> now, shouldBeLogged |-> check.shouldBeLogged,
                                            task |-> t])
           /\ IF check.shouldBeLogged
              THEN /\ gqlCalls' = Append(gqlCalls, [mutation |-> mutationOf(tasks[t].fn),
                                                    sub |-> sub, task |-> t,
                                                    newStatus |-> "none"])
                   /\ tasks' = [tasks EXCEPT ![t].pc = "awaitCreateInLoop", ![t].sub = sub,
                                             ![t].overlapped = polling]
              ELSE /\ gqlCalls' = gqlCalls
                   /\ tasks' = [tasks EXCEPT ![t].pc = IF last THEN "done" ELSE "submit",
                                             ![t].i = IF last THEN @ ELSE @ + 1,
                                             ![t].sub = sub,
                                             ![t].overlapped = polling]
    /\ UNCHANGED <<page, now, hostErrors, providerVars, wsVars>>

\* the request of the second loop returns, or throws into the catch
createInLoopSettles(t, ok) ==
    /\ t \in 1..Len(tasks)
    /\ tasks[t].pc = "awaitCreateInLoop"
    /\ LET last == tasks[t].i = Len(tasks[t].events)
       IN  tasks' = IF ok
                    THEN [tasks EXCEPT ![t].pc = IF last THEN "done" ELSE "submit",
                                       ![t].i = IF last THEN @ ELSE @ + 1]
                    ELSE [tasks EXCEPT ![t].pc = "caught"]
    /\ UNCHANGED <<page, now, dedupVars, hostErrors, providerVars, wsVars>>

\* logUserLanded (a url change) or logErrors (window.onerror) is called while
\* other log functions are in flight
pageEventCalled(fn) ==
    /\ Len(tasks) < MaxTasks
    /\ tasks' = Append(tasks,
                    [NewTask(fn, NoWallet, NoTxParams, "PENDING", <<>>, [kind |-> "page", id |-> 0])
                        EXCEPT !.pc = "fetchWallet",
                               !.errors = IF fn = "logErrors" THEN <<69>> ELSE <<>>])
    /\ UNCHANGED <<page, now, dedupVars, hostErrors, providerVars, wsVars>>

InitPageEvents ==
    /\ now = StartTime
    /\ PF_EVENTS_HASH_MAP = <<>>
    /\ gqlCalls = <<>>
    /\ checkLog = <<>>
    /\ tasks = <<>>
    /\ hostErrors = {}
    /\ ethereum \in {[present |-> injected, listeners |-> 0] : injected \in BOOLEAN}
    /\ calls = <<>>
    /\ lastAccess = NoAccess
    /\ page = LoadedPage("import", ethereum.present)
    /\ wcObject \in {NoSession} \cup WcSessions
    /\ cbObject \in {NoSession} \cup CbSessions
    /\ wsMessages = <<>>
    /\ wsRuns = {}
    /\ consumed = {}
    /\ lastSend = NoSend
    /\ lastMessage = NoMessage

NextPageEvents ==
    \/ \E fn \in {"logUserLanded", "logErrors"} : logPageEvent(fn)
    \/ \E t \in 1..Len(tasks) :
        \/ \E accounts \in AccountLists : fetchWalletReturns(t, accounts)
        \/ \E blockHeight \in BlockHeights \cup {0} : getChainStateReturns(t, blockHeight)
        \/ getChainStateThrows(t)
        \/ submitEvent(t)
        \/ \E ok \in BOOLEAN : createInLoopSettles(t, ok)

SpecPageEvents == InitPageEvents /\ [][NextPageEvents]_vars

(***************************************************************************)
(* The stable user id: read when a log function starts, written when the   *)
(* response of the backend is processed.                                   *)
(***************************************************************************)
RandomIds == {8, 9}
BackendIds == {1, 2}

\* getUserId(), random being what crypto.randomUUID() gives: the id returned and
\* the id in localStorage afterwards
getUserId(stored, random) ==
    IF stored # 0
    THEN [userId |-> stored, stored |-> stored]
    ELSE [userId |-> random, stored |-> random]

\* setUserId(userId): the id in localStorage afterwards
setUserId(stored, userId) == userId

\* logWalletConnect or logSendTransaction (of a cancelled transaction) is called:
\* it reads the user id and runs up to await getChainState
logCalled(fn, tx, random) ==
    /\ Len(tasks) < MaxTasks
    /\ LET got == getUserId(page.userId, random)
       IN  /\ page' = [page EXCEPT !.userId = got.stored,
                                   !.engineWrote = IF got.stored # page.userId
                                                   THEN @ \cup {"PF_SDK_USER_KEY"} ELSE @]
           /\ tasks' = Append(tasks,
                    [NewTask(fn, InjectedWallet(<<97>>), tx, "CANCELLED", <<>>,
                             [kind |-> "call", id |-> 0])
                        EXCEPT !.userId = got.userId])
    /\ UNCHANGED <<now, dedupVars, hostErrors, providerVars, wsVars>>

\* the chain reads return: the event is built with the user id read at the
\* start, checked and handed to gqlClient.request
eventBuilt(t, blockHeight) ==
    /\ t \in 1..Len(tasks)
    /\ tasks[t].pc = "getChainState"
    /\ blockHeight \in ReadsOf(tasks[t].walletResult)
    /\ BuildAndCheck(t, [present |-> TRUE, walletAddress |-> tasks[t].walletResult.wallet,
                         blockHeight |-> blockHeight])
    /\ page' = [page EXCEPT !.lastBuilt = [userId |-> tasks[t].userId,
                                           assigned |-> page.assigned],
                            !.engineWrote = @ \cup {"PF_EVENTS_HASH_MAP"}]
    /\ UNCHANGED <<now, hostErrors, providerVars, wsVars>>

\* gqlClient.request returns a response whose tracker.userId is userId, and
\* setUserId stores it
responseProcessed(t, userId) ==
    /\ t \in 1..Len(tasks)
    /\ tasks[t].pc = "awaitCreate"
    /\ tasks' = [tasks EXCEPT ![t].pc = "done"]
    /\ page' = [page EXCEPT !.userId = setUserId(@, userId), !.assigned = userId,
                            !.engineWrote = @ \cup {"PF_SDK_USER_KEY"}]
    /\ UNCHANGED <<now, dedupVars, hostErrors, providerVars, wsVars>>

(***************************************************************************)
(* The Coinbase session read from localStorage by fetchCbObject: at attach *)
(* and when the Addresses key is set.  Here cbObject has the fields the    *)
(* code gives it; a string-or-null value is a record, null or a text.      *)
(***************************************************************************)
Null == [null |-> TRUE, text |-> <<>>]
Str(text) == [null |-> FALSE, text |-> text]
\* the truthiness of a string-or-null value
Truthy(item) == ~item.null /\ item.text # <<>>

NoCb == [present |-> FALSE, sessionId |-> <<>>, sessionSecret |-> <<>>, linked |-> <<>>,
         addresses |-> <<>>, defaultChainId |-> <<>>, defaultJsonRpcUrl |-> <<>>]

\* the addresses are not looked at
fetchCbObject_Lenient(cb, storage, newAddressesValue) ==
    LET addresses == IF newAddressesValue.null THEN storage.Addresses ELSE newAddressesValue
    IN  IF /\ Truthy(storage.sessionId)
           /\ Truthy(storage.linked) /\ storage.linked.text = <<49>>
           /\ Truthy(storage.sessionSecret)
           /\ Truthy(storage.defaultChainId)
           /\ Truthy(storage.defaultJsonRpcUrl)
        THEN [present |-> TRUE, sessionId |-> storage.sessionId.text,
              sessionSecret |-> storage.sessionSecret.text, linked |-> storage.linked.text,
              addresses |-> addresses.text, defaultChainId |-> storage.defaultChainId.text,
              defaultJsonRpcUrl |-> storage.defaultJsonRpcUrl.text]
        ELSE cb

\* fetchCbObject(newAddressesValue?): cbObject afterwards, cb being cbObject
\* before; newAddressesValue is null when the argument is left out
fetchCbObject(cb, storage, newAddressesValue) ==
    LET addresses == IF newAddressesValue.null THEN storage.Addresses ELSE newAddressesValue
    IN  IF /\ Truthy(storage.sessionId)
           /\ Truthy(storage.linked) /\ storage.linked.text = <<49>>
           /\ Truthy(addresses) /\ Len(addresses.text) > 0
           /\ Truthy(storage.sessionSecret)
           /\ Truthy(storage.defaultChainId)
           /\ Truthy(storage.defaultJsonRpcUrl)
        THEN [present |-> TRUE, sessionId |-> storage.sessionId.text,
              sessionSecret |-> storage.sessionSecret.text, linked |-> storage.linked.text,
              addresses |-> addresses.text, defaultChainId |-> storage.defaultChainId.text,
              defaultJsonRpcUrl |-> storage.defaultJsonRpcUrl.text]
        ELSE cb

\* attach calls fetchCbObject()
attachFetchCbObject ==
    /\ cbObject' = fetchCbObject(cbObject, page.walletlink, Null)
    /\ page' = [page EXCEPT !.fetched = [made |-> TRUE, before |-> cbObject.present,
                                         newAddressesValue |-> Null,
                                         storage |-> page.walletlink]]
    /\ UNCHANGED <<now, dedupVars, tasks, hostErrors, providerVars,
                   wcObject, wsMessages, wsRuns, consumed, lastSend, lastMessage>>

\* localStorage.setItem(key, value) through the wrapper of addLocalStorageListener:
\* localStorageSetHandler runs first (for the Addresses key it calls
\* fetchCbObject(value) and, with a session and a new non-empty value, sets
\* cbObject.addresses and calls logWalletConnect), then the item is stored
setItem(key, value) ==
    LET cb == fetchCbObject(cbObject, page.walletlink, Str(value))
        oldAddressesValue == IF page.walletlink.Addresses.null THEN <<>>
                             ELSE page.walletlink.Addresses.text
        logs == cb.present /\ Len(value) > 0 /\ value # oldAddressesValue
    IN  /\ IF key = "Addresses"
           THEN /\ logs => Len(tasks) < MaxTasks
                /\ cbObject' = IF logs THEN [cb EXCEPT !.addresses = value] ELSE cb
                /\ tasks' = IF logs
                             THEN Append(tasks, NewTask("logWalletConnect",
                                        [type |-> "coinbase", wallet |-> toLowerCase(value),
                                         walletProvider |-> "coinbase", providerNull |-> FALSE],
                                        NoTxParams, "PENDING", <<>>, [kind |-> "storage", id |-> 0]))
                             ELSE tasks
                /\ page' = [page EXCEPT !.walletlink.Addresses = Str(value),
                                        !.fetched = [made |-> TRUE, before |-> cbObject.present,
                                                     newAddressesValue |-> Str(value),
                                                     storage |-> page.walletlink],
                                        !.stored = [made |-> TRUE, key |-> key,
                                                    value |-> value, times |-> 1]]
           ELSE /\ cbObject' = cbObject
                /\ tasks' = tasks
                /\ page' = [page EXCEPT !.walletlink[key] = Str(value),
                                        !.stored = [made |-> TRUE, key |-> key,
                                                    value |-> value, times |-> 1]]
        /\ page' # page
        /\ UNCHANGED <<now, dedupVars, hostErrors, providerVars,
                       wcObject, wsMessages, wsRuns, consumed, lastSend, lastMessage>>

\* addLocalStorageListener(): localStorage.setItem = function ... is an
\* assignment to a Storage object.  Where the engine lets it shadow the method
\* (overrides) the wrapper is installed; where the assignment goes to the
\* named-property setter of Storage it stores the text of the function as the
\* item 'setItem' and the method stays native
addLocalStorageListener(overrides) ==
    /\ page.setItem = "native" /\ "setItem" \notin page.engineWrote
    /\ page' = IF overrides
               THEN [page EXCEPT !.setItem = "wrapper"]
               ELSE [page EXCEPT !.engineWrote = @ \cup {"setItem"}]
    /\ UNCHANGED <<now, dedupVars, tasks, hostErrors, providerVars, wsVars>>

\* the host calls localStorage.setItem(key, value)
hostSetItem(key, value) ==
    IF page.setItem = "wrapper"
    THEN setItem(key, value)
    ELSE /\ page' = [page EXCEPT !.walletlink[key] = Str(value),
                                 !.stored = [made |-> TRUE, key |-> key,
                                             value |-> value, times |-> 1]]
         /\ page' # page
         /\ UNCHANGED <<now, dedupVars, tasks, hostErrors, providerVars, wsVars>>

(***************************************************************************)
(* getProviderNameForMetamask: the brand of the injected provider.  A      *)
(* probe is named by the label it leads to; matched is the set of probes   *)
(* that are truthy for window.ethereum.                                    *)
(***************************************************************************)
\* isMetaMask is probed first
getProviderNameForMetamask_MetaMaskFirst(matched) ==
    IF "metamask" \in matched THEN "metamask"
    ELSE IF "trust" \in matched THEN "trust"
    ELSE IF "gowallet" \in matched THEN "gowallet"
    ELSE IF "alphawallet" \in matched THEN "alphawallet"
    ELSE IF "status" \in matched THEN "status"
    ELSE IF "coinbase" \in matched THEN "coinbase"
    ELSE IF "rabby" \in matched THEN "rabby"
    ELSE IF "frame" \in matched THEN "frame"
    ELSE IF "cipher" \in matched THEN "cipher"
    ELSE IF "mist" \in matched THEN "mist"
    ELSE IF "parity" \in matched THEN "parity"
    ELSE IF "infura" \in matched THEN "infura"
    ELSE IF "localhost" \in matched THEN "localhost"
    ELSE "unknown"

getProviderNameForMetamask(matched) ==
    IF "trust" \in matched THEN "trust"                  \* isTrust
    ELSE IF "gowallet" \in matched THEN "gowallet"       \* isGoWallet
    ELSE IF "alphawallet" \in matched THEN "alphawallet" \* isAlphaWallet
    ELSE IF "status" \in matched THEN "status"           \* isStatus
    ELSE IF "coinbase" \in matched THEN "coinbase"       \* isCoinbaseWallet
    ELSE IF "rabby" \in matched THEN "rabby"             \* isRabby
    ELSE IF "frame" \in matched THEN "frame"             \* isFrame
    ELSE IF "cipher" \in matched THEN "cipher"           \* window.__CIPHER__
    ELSE IF "mist" \in matched THEN "mist"               \* constructor.name EthereumProvider
    ELSE IF "parity" \in matched THEN "parity"           \* constructor.name Web3FrameProvider
    ELSE IF "infura" \in matched THEN "infura"           \* host has 'infura'
    ELSE IF "localhost" \in matched THEN "localhost"     \* host has 'localhost'
    ELSE IF "metamask" \in matched THEN "metamask"       \* isMetaMask
    ELSE "unknown"

\* fetchWallet names the injected provider
providerNamed ==
    /\ Len(page.names) < MaxTasks
    /\ page' = [page EXCEPT !.names = Append(@, getProviderNameForMetamask(page.probes))]
    /\ UNCHANGED <<now, dedupVars, tasks, hostErrors, providerVars, wsVars>>

(***************************************************************************)
(* addProviderListeners and the accountsChanged notifications of the       *)
(* injected provider.                                                      *)
(***************************************************************************)
\* the listener is added without being removed first
rebind_OnOnly(registrations) == registrations + 1

\* provider.removeListener('accountsChanged', accountsChangedListener), which
\* takes one entry of the listener away if there is one, and then
\* provider.on('accountsChanged', accountsChangedListener)
rebind(registrations) == (IF registrations > 0 THEN registrations - 1 ELSE 0) + 1

\* addProviderListeners() is called and suspends at await getProvider()
addProviderListeners ==
    /\ page.awaitingGetProvider + page.bound < MaxAttach
    /\ page' = [page EXCEPT !.awaitingGetProvider = @ + 1]
    /\ UNCHANGED <<now, dedupVars, tasks, hostErrors, providerVars, wsVars>>

\* getProvider() returns to one of the suspended calls, which rebinds the
\* listener on the injected provider and ends
getProviderReturns ==
    /\ page.awaitingGetProvider > 0
    /\ page' = [page EXCEPT !.awaitingGetProvider = @ - 1, !.bound = @ + 1,
                            !.registrations = rebind(@)]
    /\ ethereum' = [ethereum EXCEPT !.listeners = @ - page.registrations + rebind(page.registrations)]
    /\ UNCHANGED <<now, dedupVars, tasks, hostErrors, calls, lastAccess, wsVars>>

\* the provider emits accountsChanged: every entry of accountsChangedListener is
\* called with accounts, and the first throws into the emitter for an empty list
accountsChanged(accounts) ==
    /\ Len(tasks) + page.registrations <= MaxTasks
    /\ IF accounts = <<>>
       THEN /\ hostErrors' = IF page.registrations > 0
                             THEN hostErrors \cup {[kind |-> "exception", from |-> "accountsChangedListener"]}
                             ELSE hostErrors
            /\ tasks' = tasks
       ELSE /\ hostErrors' = hostErrors
            /\ tasks' = tasks \o [k \in 1..page.registrations |->
                            NewTask("logWalletConnect", InjectedWallet(toLowerCase(accounts[1])),
                                    NoTxParams, "PENDING", <<>>,
                                    [kind |-> "accountsChanged", id |-> 0])]
    /\ page' = [page EXCEPT !.emitted = [made |-> TRUE, accounts |-> accounts, bound |-> page.bound,
                                         started |-> Len(tasks') - Len(tasks)]]
    /\ UNCHANGED <<now, dedupVars, providerVars, wsVars>>

(***************************************************************************)
(* The deduplicator under repeated wallet events.                          *)
(***************************************************************************)
TickSteps == {500, 1000}

Init ==
    /\ now = StartTime
    /\ PF_EVENTS_HASH_MAP = <<>>
    /\ gqlCalls = <<>>
    /\ checkLog = <<>>
    /\ tasks = <<>>
    /\ hostErrors = {}
    /\ ethereum = [present |-> TRUE, listeners |-> 0]
    /\ calls = <<>>
    /\ lastAccess = NoAccess
    /\ page = LoadedPage("import", TRUE)
    /\ wcObject = NoSession
    /\ cbObject = NoSession
    /\ wsMessages = <<>>
    /\ wsRuns = {}
    /\ consumed = {}
    /\ lastSend = NoSend
    /\ lastMessage = NoMessage

\* the injected provider is read through the proxy, so a read of logWalletConnect
\* never throws here
NextDedup ==
    \/ \E d \in TickSteps : Tick(d)
    \/ \E accounts \in AccountLists : accountsChangedListener(accounts)
    \/ \E i \in 1..Len(tasks) :
        \/ \E blockHeight \in BlockHeights \cup {0} : LogReadsReturn(i, blockHeight)
        \/ CreateReturns(i)
        \/ CreateThrows(i)

SpecDedup == Init /\ [][NextDedup]_vars

(***************************************************************************)
(* The page using window.ethereum through the proxy.                       *)
(***************************************************************************)
NextProvider ==
    \/ \E convention \in Conventions, method \in Methods :
            \E params \in ParamsFor(method) : request(convention, method, params)
    \/ \E c \in 1..Len(calls) :
            \E result \in ResultsOf(calls[c].asked.method) : RealResolves(c, result)
    \/ \E c \in 1..Len(calls), code \in ErrorCodes : RealRejects(c, code)
    \/ LogNext

SpecProvider == Init /\ [][NextProvider]_vars

(***************************************************************************)
(* The page reading and calling the properties of window.ethereum.         *)
(***************************************************************************)
NextAccess ==
    \/ \E prop \in ProviderProps : ProxyGet(prop)
    \/ \E prop \in ProviderMethods : ProxyCall(prop)
    \/ \E convention \in Conventions, method \in Methods :
            \E params \in ParamsFor(method) : request(convention, method, params)
    \/ \E c \in 1..Len(calls) :
            \E result \in ResultsOf(calls[c].asked.method) : RealResolves(c, result)
    \/ \E c \in 1..Len(calls), code \in ErrorCodes : RealRejects(c, code)

SpecAccess == Init /\ [][NextAccess]_vars

(***************************************************************************)
(* Transactions reported to logSendTransaction and watched until mined.    *)
(***************************************************************************)
NextMined ==
    \/ \E txStatus \in {"PENDING", "CANCELLED"} :
            logSendTransaction(WsTx, txStatus, IF txStatus = "PENDING" THEN WsHash ELSE <<>>,
                               InjectedWallet(<<97>>))
    \/ logSendTransaction(WsTx, "PENDING", WsHash,
                          [type |-> "walletconnect", wallet |-> <<97>>,
                           walletProvider |-> "metamask", providerNull |-> FALSE])
    \/ LogNext
    \/ \E i \in 1..Len(tasks) :
        \/ \E receipt \in Receipts : waitMined(i, receipt)
        \/ waitMinedThrows(i)
        \/ \E ok \in BOOLEAN : UpdateSettles(i, ok)

SpecMined == Init /\ [][NextMined]_vars

\* log functions called while others await their reads or their response
NextUser ==
    \/ \E fn \in {"logWalletConnect", "logSendTransaction"}, random \in RandomIds :
            logCalled(fn, WsTx, random)
    \/ \E t \in 1..Len(tasks) :
        \/ \E blockHeight \in BlockHeights \cup {0} : eventBuilt(t, blockHeight)
        \/ \E userId \in BackendIds : responseProcessed(t, userId)
        \/ CreateThrows(t)

SpecUser == Init /\ [][NextUser]_vars

\* a page whose localStorage holds any of the Coinbase relay keys, attach having
\* added the storage listener
InitCb ==
    /\ now = StartTime
    /\ PF_EVENTS_HASH_MAP = <<>>
    /\ gqlCalls = <<>>
    /\ checkLog = <<>>
    /\ tasks = <<>>
    /\ hostErrors = {}
    /\ ethereum = [present |-> FALSE, listeners |-> 0]
    /\ calls = <<>>
    /\ lastAccess = NoAccess
    /\ \E sessionId \in {Null, Str(<<>>), Str(<<49>>)}, linked \in {Null, Str(<<48>>), Str(<<49>>)},
          secret \in {Null, Str(<<49>>)}, Addresses \in {Null, Str(<<>>), Str(<<65>>)},
          defaultJsonRpcUrl \in {Str(<<>>), Str(<<49>>)}, defaultChainId \in {Null, Str(<<49>>)} :
            page = [LoadedPage("import", FALSE) EXCEPT
                        !.walletlink = [sessionId |-> sessionId, linked |-> linked,
                                        defaultChainId |-> defaultChainId,
                                        defaultJsonRpcUrl |-> defaultJsonRpcUrl,
                                        sessionSecret |-> secret, Addresses |-> Addresses]]
    /\ wcObject = NoSession
    /\ cbObject = NoCb
    /\ wsMessages = <<>>
    /\ wsRuns = {}
    /\ consumed = {}
    /\ lastSend = NoSend
    /\ lastMessage = NoMessage

NextCb ==
    \/ attachFetchCbObject
    \/ \E key \in {"Addresses", "linked"}, value \in {<<>>, <<49>>, <<66>>} : setItem(key, value)

SpecCb == InitCb /\ [][NextCb]_vars

\* an injected provider answering to at most two probes at once
InitProbes ==
    /\ now = StartTime
    /\ PF_EVENTS_HASH_MAP = <<>>
    /\ gqlCalls = <<>>
    /\ checkLog = <<>>
    /\ tasks = <<>>
    /\ hostErrors = {}
    /\ ethereum = [present |-> TRUE, listeners |-> 0]
    /\ calls = <<>>
    /\ lastAccess = NoAccess
    /\ \E matched \in SUBSET {"trust", "gowallet", "alphawallet", "status", "coinbase", "rabby",
                               "frame", "cipher", "mist", "parity", "infura", "localhost",
                               "metamask"} :
            /\ Cardinality(matched) <= 2
            /\ page = [LoadedPage("import", TRUE) EXCEPT !.probes = matched]
    /\ wcObject = NoSession
    /\ cbObject = NoSession
    /\ wsMessages = <<>>
    /\ wsRuns = {}
    /\ consumed = {}
    /\ lastSend = NoSend
    /\ lastMessage = NoMessage

SpecProbes == InitProbes /\ [][providerNamed]_vars

\* calls of addProviderListeners overlapping each other and the notifications of
\* the injected provider
NextListeners ==
    \/ addProviderListeners
    \/ getProviderReturns
    \/ \E accounts \in AccountLists : accountsChanged(accounts)
    \/ LogNext

SpecListeners == Init /\ [][NextListeners]_vars

\* one eth_sendTransaction request whose transaction is watched, and a
\* navigation, error or transaction event arriving while its waitMined polls
NextWatch ==
    \/ /\ calls = <<>> /\ tasks = <<>>
       /\ \E convention \in Conventions :
                request(convention, "eth_sendTransaction",
                        [defined |-> TRUE, hasTx |-> TRUE, tx |-> WsTx])
    \/ \E c \in 1..Len(calls) : RealResolves(c, [type |-> "string", accounts |-> <<>>, text |-> <<104>>])
    \/ /\ tasks # <<>>
       /\ \A t \in 1..Len(tasks) : tasks[t].pc = "waitMined"
       /\ \/ \E fn \in {"logUserLanded", "logErrors"} : pageEventCalled(fn)
          \/ logCalled("logSendTransaction", WsTx, 8)
    \/ LogNext
    \/ \E i \in 1..Len(tasks) :
        \/ \E receipt \in {[present |-> FALSE, blockNumber |-> FALSE, status |-> "absent"],
                            [present |-> TRUE, blockNumber |-> TRUE, status |-> "0x1"]} :
                waitMined(i, receipt)
        \/ waitMinedThrows(i)
        \/ UpdateSettles(i, TRUE)
        \/ fetchWalletReturns(i, <<>>)
        \/ getChainStateReturns(i, 0)
        \/ submitEvent(i)
        \/ createInLoopSettles(i, TRUE)

SpecWatch == Init /\ [][NextWatch]_vars

\* logWalletConnect is called for the same wallet once the call before it has
\* ended
logWalletConnectCalled ==
    /\ Len(tasks) < MaxRun
    /\ \A t \in 1..Len(tasks) : tasks[t].pc \in {"done", "caught", "suppressed"}
    /\ StartLog("logWalletConnect", InjectedWallet(<<97>>), NoTxParams, "PENDING", <<>>,
                [kind |-> "call", id |-> 0])
    /\ UNCHANGED <<page, now, dedupVars, hostErrors, providerVars, wsVars>>

\* a run of wallet connections over time
NextRun ==
    \/ \E d \in TickSteps : Tick(d)
    \/ logWalletConnectCalled
    \/ LogNext

SpecRun == Init /\ [][NextRun]_vars

\* logSendTransaction is called for the same transaction while earlier calls
\* may still await their receipt
logSendTransactionCalled(txStatus) ==
    /\ Len(tasks) < MaxTasks
    /\ \A t \in 1..Len(tasks) : tasks[t].pc \in {"waitMined", "done", "caught", "suppressed"}
    /\ StartLog("logSendTransaction", InjectedWallet(<<97>>), WsTx, txStatus,
                IF txStatus = "PENDING" THEN WsHash ELSE <<>>, [kind |-> "call", id |-> 0])
    /\ UNCHANGED <<page, now, dedupVars, hostErrors, providerVars, wsVars>>

\* transactions reported again over time; every lookup of waitMined meets a
\* mined receipt or rejects
NextResend ==
    \/ Tick(MIN_TIME_DIFF_FOR_EVENT_LOG_MS)
    \/ \E txStatus \in {"PENDING", "CANCELLED"} : logSendTransactionCalled(txStatus)
    \/ LogNext
    \/ \E i \in 1..Len(tasks) :
        \/ waitMined(i, [present |-> TRUE, blockNumber |-> TRUE, status |-> "0x1"])
        \/ waitMinedThrows(i)
        \/ UpdateSettles(i, TRUE)

SpecResend == Init /\ [][NextResend]_vars

\* recipients that differ in two neighbouring characters, "Aa" and "BB", as
\* mixed-case addresses do
Recipients == {<<65, 97>>, <<66, 66>>}

\* logSendTransaction is called for a rejected transaction to the recipient
\* once the call before it has ended
logSendTransactionTo(to) ==
    /\ Len(tasks) < MaxTasks
    /\ \A t \in 1..Len(tasks) : tasks[t].pc \in {"done", "caught", "suppressed"}
    /\ StartLog("logSendTransaction", InjectedWallet(<<97>>), [WsTx EXCEPT !.to = to],
                "CANCELLED", <<>>, [kind |-> "call", id |-> 0])
    /\ UNCHANGED <<page, now, dedupVars, hostErrors, providerVars, wsVars>>

\* transactions to different recipients over time
NextRecipients ==
    \/ \E d \in TickSteps : Tick(d)
    \/ \E to \in Recipients : logSendTransactionTo(to)
    \/ LogNext

SpecRecipients == Init /\ [][NextRecipients]_vars

\* wallet connections and page landings (attach and url changes) in flight at
\* the same time
NextConcurrent ==
    \/ \E d \in TickSteps : Tick(d)
    \/ \E accounts \in Accounts : accountsChangedListener(<<accounts>>)
    \/ pageEventCalled("logUserLanded")
    \/ \E i \in 1..Len(tasks) :
        \/ LogReadsReturn(i, 1)
        \/ CreateReturns(i)
        \/ fetchWalletReturns(i, <<>>)
        \/ getChainStateReturns(i, 0)
        \/ submitEvent(i)
        \/ createInLoopSettles(i, TRUE)

SpecConcurrent == Init /\ [][NextConcurrent]_vars

\* the writes to localStorage: of the host through setItem, and of the SDK
NextStorage ==
    \/ \E overrides \in BOOLEAN : addLocalStorageListener(overrides)
    \/ \E key \in {"Addresses", "sessionId"}, value \in {<<>>, <<49>>} : hostSetItem(key, value)
    \/ \E random \in RandomIds : logCalled("logWalletConnect", WsTx, random)
    \/ \E t \in 1..Len(tasks) :
        \/ \E blockHeight \in BlockHeights : eventBuilt(t, blockHeight)
        \/ \E userId \in BackendIds : responseProcessed(t, userId)

SpecStorage == Init /\ [][NextStorage]_vars

(***************************************************************************)
(* Sockets carrying bridge frames on a page with no injected provider and  *)
(* no, a WalletConnect or a Coinbase session, up to the calls of the log   *)
(* functions the observers make.                                           *)
(***************************************************************************)
InitWs ==
    /\ now = StartTime
    /\ PF_EVENTS_HASH_MAP = <<>>
    /\ gqlCalls = <<>>
    /\ checkLog = <<>>
    /\ tasks = <<>>
    /\ hostErrors = {}
    /\ ethereum = [present |-> FALSE, listeners |-> 0]
    /\ calls = <<>>
    /\ lastAccess = NoAccess
    /\ page = LoadedPage("import", FALSE)
    /\ \/ wcObject = NoSession /\ cbObject = NoSession
       \/ wcObject \in WcSessions /\ cbObject = NoSession
       \/ wcObject = NoSession /\ cbObject \in CbSessions
    /\ wsMessages = <<>>
    /\ wsRuns = {}
    /\ consumed = {}
    /\ lastSend = NoSend
    /\ lastMessage = NoMessage

NextWs ==
    \/ \E frame \in OutFrames, throws \in BOOLEAN : send(frame, throws)
    \/ \E run \in wsRuns : OutboundDecrypted(run)
    \/ \E frame \in InFrames : message(frame)
    \/ \E run \in wsRuns : InboundDecrypted(run)

SpecWs == InitWs /\ [][NextWs]_vars

(***************************************************************************)
(* Claims on the deduplicator.                                             *)
(***************************************************************************)
CreateMutations == {"CreateWalletConnectedEvent", "CreateTxRequestEvent",
                    "CreateErrorEvent", "CreateUserLandedEvent"}

\* the backend create calls made for the submissions in subs
CreateCallsFor(subs) ==
    {c \in 1..Len(gqlCalls) : gqlCalls[c].mutation \in CreateMutations /\ gqlCalls[c].sub \in subs}

\* k1 and k2 are the first and the second submission of one hash, of identical events
FirstTwoIdentical(k1, k2) ==
    /\ k1 < k2
    /\ checkLog[k1].event = checkLog[k2].event
    /\ \A k \in 1..(k2 - 1) : k # k1 => checkLog[k].hash # checkLog[k1].hash

\* C1: with no dedup entry for the hash at the start, two structurally identical
\* events submitted through checkShouldLogEvent less than 1000 ms apart cause
\* exactly one backend create call, and two submitted more than 1000 ms apart cause
\* two.
C1_DedupWindow ==
    \A k1, k2 \in 1..Len(checkLog) :
        FirstTwoIdentical(k1, k2) =>
            LET apart == checkLog[k2].time - checkLog[k1].time
                made == Cardinality(CreateCallsFor({k1, k2}))
            IN  /\ apart < MIN_TIME_DIFF_FOR_EVENT_LOG_MS => made = 1
                /\ apart > MIN_TIME_DIFF_FOR_EVENT_LOG_MS => made = 2

\* two identical events 500 ms apart, one create call
C1_Witness ==
    \E k1, k2 \in 1..Len(checkLog) :
        /\ FirstTwoIdentical(k1, k2)
        /\ checkLog[k2].time - checkLog[k1].time = 500
        /\ Cardinality(CreateCallsFor({k1, k2})) = 1

\* C2: any two backend create calls for events with the same structural hash are
\* at least 1000 ms apart.
C2_AtMostOncePerWindow ==
    \A c1, c2 \in CreateCallsFor(1..Len(checkLog)) :
        (c1 < c2 /\ checkLog[gqlCalls[c1].sub].hash = checkLog[gqlCalls[c2].sub].hash)
            => checkLog[gqlCalls[c2].sub].time - checkLog[gqlCalls[c1].sub].time
                   >= MIN_TIME_DIFF_FOR_EVENT_LOG_MS

\* two create calls for one hash, exactly the window apart
C2_Witness ==
    \E c1, c2 \in CreateCallsFor(1..Len(checkLog)) :
        /\ c1 < c2
        /\ checkLog[gqlCalls[c1].sub].hash = checkLog[gqlCalls[c2].sub].hash
        /\ checkLog[gqlCalls[c2].sub].time - checkLog[gqlCalls[c1].sub].time
               = MIN_TIME_DIFF_FOR_EVENT_LOG_MS

(***************************************************************************)
(* The request wrapper.                                                    *)
(***************************************************************************)
\* the log functions the wrapper started for call c
StartedBy(c) == {i \in 1..Len(tasks) : tasks[i].src = [kind |-> "request", id |-> c]}
Built(i) == tasks[i].pc \in {"awaitCreate", "suppressed", "waitMined", "done"}
RealFailed(c) == calls[c].pc = "settled" /\ calls[c].real.kind = "rejected"
RealSucceeded(c) == calls[c].pc = "settled" /\ calls[c].real.kind = "resolved"

\* C4: when the real request fails with an error that does not carry code 4001,
\* the promise the wrapper returned rejects with that same error object, for
\* every method and both calling conventions.
C4_UnknownErrorsRethrown ==
    \A c \in 1..Len(calls) :
        (RealFailed(c) /\ calls[c].real.error.code # 4001)
            => calls[c].outcome = Rejected(calls[c].real.error)

\* a request that failed with an error other than 4001 and has settled
C4_Witness ==
    \E c \in 1..Len(calls) :
        /\ RealFailed(c)
        /\ calls[c].real.error.code = -32603
        /\ calls[c].outcome.kind = "resolved"

C6_UserRejectionMapping ==
    \A c \in 1..Len(calls) :
        (RealFailed(c) /\ calls[c].real.error.code = 4001) =>
            /\ \E i \in StartedBy(c) :
                /\ tasks[i].fn = "logSendTransaction"
                /\ tasks[i].txStatus = "CANCELLED"
                /\ tasks[i].result = <<>>
            /\ calls[c].outcome.kind # "rejected"

\* a rejected eth_requestAccounts: no event, and the wrapper's promise rejects
\* with a TypeError
C6_Witness ==
    \E c \in 1..Len(calls) :
        /\ RealFailed(c)
        /\ calls[c].real.error.code = 4001
        /\ calls[c].asked.method = "eth_requestAccounts"
        /\ StartedBy(c) = {}
        /\ calls[c].outcome = Rejected(TypeError)

DecodeFailures == {"message: JSON.parse", "message: decrypt", "proxiedSend: decrypt"}
\* the inspection of a decrypted inbound frame with an id has just ended
InboundInspected ==
    lastMessage.seen /\ lastMessage.frame.decrypts /\ lastMessage.frame.body.id # 0

\* C3: after an outbound frame with id X that decrypts to an eth_sendTransaction
\* request, an inbound frame with id X that decrypts to a result starts exactly
\* one TxRequest event with status PENDING and the returned hash; a later
\* inbound frame with the id X, arriving after the first was consumed, starts
\* no event and changes no state.
C3_BridgeCorrelation ==
    InboundInspected =>
        LET body == lastMessage.frame.body
        IN  /\ (lastMessage.wasPending /\ ~lastMessage.wasConsumed /\ body.kind = "result") =>
                    /\ lastMessage.started = 1
                    /\ tasks[lastMessage.task].fn = "logSendTransaction"
                    /\ tasks[lastMessage.task].txStatus = "PENDING"
                    /\ tasks[lastMessage.task].result = body.result
                    /\ tasks[lastMessage.task].tx = lastMessage.before[body.id].tx
            /\ lastMessage.wasConsumed =>
                    /\ lastMessage.started = 0
                    /\ lastMessage.after = lastMessage.before

\* a second result frame for an id already consumed started a second TxRequest
C3_Witness ==
    /\ InboundInspected
    /\ lastMessage.wasConsumed
    /\ lastMessage.frame.body.kind = "result"
    /\ lastMessage.started = 1
    /\ Cardinality({i \in 1..Len(tasks) :
            tasks[i].src = [kind |-> "message", id |-> lastMessage.frame.body.id]}) = 2

\* C8: every call of a socket's wrapped send calls the original send with the
\* same frame, whatever the inspection met (no session, a frame that is not
\* JSON, a payload that does not decrypt, a frame that is no bridge frame).
C8_OutboundForwarding ==
    lastSend.called =>
        /\ lastSend.forwarded # <<>>
        /\ \A k \in 1..Len(lastSend.forwarded) : lastSend.forwarded[k] = lastSend.frame

\* a WalletConnect frame whose payload is not JSON was sent and forwarded
C8_Witness ==
    /\ lastSend.called
    /\ wcObject.present
    /\ lastSend.frame.envelope = "wc"
    /\ lastSend.frame.payload = "notJson"
    /\ lastSend.forwarded = <<lastSend.frame>>

\* C9: a frame that is not valid JSON or whose payload fails to decrypt starts
\* no event, leaves the pending map as it was, and gives the page no unhandled
\* rejection.
C9_DecodeFailuresContained ==
    /\ \A e \in hostErrors : ~(e.kind = "unhandledrejection" /\ e.from \in DecodeFailures)
    /\ \A i \in 1..Len(tasks) : tasks[i].src.kind # "unhandledrejection"
    /\ (lastMessage.seen /\ ~lastMessage.frame.decrypts) =>
            /\ lastMessage.started = 0
            /\ lastMessage.after = lastMessage.before

\* an inbound frame that is not JSON gave the page an unhandled rejection and
\* started a GenericError event
C9_Witness ==
    /\ [kind |-> "unhandledrejection", from |-> "message: JSON.parse"] \in hostErrors
    /\ lastMessage.seen
    /\ lastMessage.frame.envelope = "notJson"
    /\ lastMessage.started = 1
    /\ tasks[lastMessage.task].fn = "logErrors"

C10_WitnessNoEvent ==
    /\ InboundInspected
    /\ lastMessage.via = "wc"
    /\ lastMessage.wasPending
    /\ lastMessage.frame.body.message = <<82, 101, 106, 101, 99, 116, 101, 100>>
    /\ lastMessage.started = 0

\* C11: after an inbound frame whose decrypted id matches a pending entry has
\* been processed (result or error), wsMessages no longer contains that id.
C11_PendingLifecycle ==
    (InboundInspected /\ lastMessage.wasPending) =>
        ~Has(lastMessage.after, lastMessage.frame.body.id)

\* a result frame for a pending id was processed and the id is still pending
C11_Witness ==
    /\ InboundInspected
    /\ lastMessage.wasPending
    /\ lastMessage.frame.body.kind = "result"
    /\ lastMessage.started = 1
    /\ Has(wsMessages, lastMessage.frame.body.id)

\* C12: waitMined returns at the first lookup whose receipt has a block number
\* and polls no more; it returns FAILURE for status 0x0 and SUCCESS otherwise,
\* so N-1 lookups without a mined receipt and a mined one with status 0x0 on
\* lookup N (N <= retries) give FAILURE after exactly N lookups.
C12_FinalityResult ==
    \A i \in 1..Len(tasks) :
        LET t == tasks[i]
            mined == t.receipt.present /\ t.receipt.blockNumber
        IN  /\ t.returned \in {"SUCCESS", "FAILURE"} =>
                    /\ mined
                    /\ t.returned = "FAILURE" <=> t.receipt.status = "0x0"
                    /\ t.polls = t.attempts + 1
                    /\ t.polls <= retries
                    /\ t.pc # "waitMined"
            /\ mined => t.returned \in {"SUCCESS", "FAILURE"}

C12_Witness ==
    \E i \in 1..Len(tasks) :
        /\ tasks[i].returned = "FAILURE"
        /\ tasks[i].receipt.status = "0x0"
        /\ tasks[i].polls = retries

\* C13: waitMined makes at most retries lookups; when none of them gives a
\* mined receipt it returns null after retries lookups, and then no status
\* update is sent, nothing is thrown or caught, and the transaction is looked
\* up no more.
C13_FinalityBudget ==
    \A i \in 1..Len(tasks) :
        /\ tasks[i].polls <= retries
        /\ tasks[i].returned = "null" =>
                /\ tasks[i].polls = retries
                /\ ~(tasks[i].receipt.present /\ tasks[i].receipt.blockNumber)
                /\ tasks[i].pc = "done"
                /\ hostErrors = {}
                /\ \A c \in 1..Len(gqlCalls) :
                        gqlCalls[c].task = i => gqlCalls[c].mutation = "CreateTxRequestEvent"

C13_Witness ==
    \E i \in 1..Len(tasks) :
        /\ tasks[i].returned = "null"
        /\ tasks[i].polls = retries
        /\ \E c \in 1..Len(gqlCalls) : gqlCalls[c].task = i

\* C14: every TxRequest event is created with status PENDING or CANCELLED; a
\* status update is sent only for an event created as PENDING, after its
\* creation, with SUCCESS or FAILURE as the new status, and at most once per
\* created event.
C14_StatusDiscipline ==
    \A c \in 1..Len(gqlCalls) :
        /\ gqlCalls[c].mutation = "CreateTxRequestEvent" =>
                /\ checkLog[gqlCalls[c].sub].event.tx.status \in {"PENDING", "CANCELLED"}
                /\ gqlCalls[c].newStatus = "none"
        /\ gqlCalls[c].mutation = "UpdateTxRequestEventTxStatus" =>
                /\ gqlCalls[c].newStatus \in {"SUCCESS", "FAILURE"}
                /\ checkLog[gqlCalls[c].sub].event.tx.status = "PENDING"
                /\ \E d \in 1..(c - 1) :
                        /\ gqlCalls[d].mutation = "CreateTxRequestEvent"
                        /\ gqlCalls[d].sub = gqlCalls[c].sub
                /\ \A d \in 1..Len(gqlCalls) :
                        (gqlCalls[d].mutation = "UpdateTxRequestEventTxStatus"
                            /\ gqlCalls[d].sub = gqlCalls[c].sub) => d = c

C14_Witness ==
    \E c \in 1..Len(gqlCalls) :
        /\ gqlCalls[c].mutation = "UpdateTxRequestEventTxStatus"
        /\ gqlCalls[c].newStatus = "SUCCESS"
        /\ tasks[gqlCalls[c].task].pc = "done"

\* C15: when the backend request of a create or of a status update fails, the
\* log function catches it and ends: the page sees no error, and the request
\* that failed was submitted once and is not submitted again.
C15_BestEffortDelivery ==
    \A i \in 1..Len(tasks) :
        LET createFailed == tasks[i].pc = "caught" /\ tasks[i].sub # 0 /\ tasks[i].polls = 0
            updateFailed == tasks[i].pc = "caught" /\ tasks[i].returned \in {"SUCCESS", "FAILURE"}
            sent(m) == {c \in 1..Len(gqlCalls) : gqlCalls[c].task = i /\ gqlCalls[c].mutation = m}
        IN  /\ createFailed =>
                /\ hostErrors = {}
                /\ Cardinality(sent(mutationOf(tasks[i].fn))) = 1
                /\ sent("UpdateTxRequestEventTxStatus") = {}
            /\ updateFailed =>
                /\ hostErrors = {}
                /\ Cardinality(sent("CreateTxRequestEvent")) = 1
                /\ Cardinality(sent("UpdateTxRequestEventTxStatus")) = 1

C15_Witness ==
    \E i \in 1..Len(tasks) :
        /\ tasks[i].pc = "caught"
        /\ tasks[i].returned = "FAILURE"
        /\ \E c \in 1..Len(gqlCalls) : gqlCalls[c].mutation = "UpdateTxRequestEventTxStatus"

\* C16: after initializeProviderProxy has run twice (and the page has not
\* written the proxy back to window.ethereum) the injected provider is wrapped
\* in one Proxy: a pass-through read of window.ethereum runs handler.get once
\* and reads the injected object once.
C16_IdempotentInstall ==
    ~page.wroteBack =>
        /\ page.proxy <= 1
        /\ (page.read.made /\ page.read.installs >= 1) =>
                /\ page.read.handlerRuns = 1
                /\ page.read.touches = 1

C16_Witness ==
    /\ page.installs = 2 /\ ~page.wroteBack
    /\ page.read.made /\ page.read.installs = 2
    /\ page.read.handlerRuns = 1 /\ page.read.touches = 1

\* C17: once the bundle entry has run initializeWsProxy on DOMContentLoaded and
\* attach on load, window.WebSocket is wrapped by one ProxiedWebSocket, and a
\* socket created afterwards has one message listener of the SDK and one
\* wrapper around send.
C17_SingleTransportInstall ==
    (page.entry = "bundle" /\ page.attach = "returned") =>
        /\ page.WebSocket = 1
        /\ (page.socket.created /\ page.socket.attach = "returned") =>
                /\ page.socket.observers = 1
                /\ page.socket.sendWrappers = 1

C17_Witness ==
    /\ page.entry = "bundle" /\ page.dom /\ page.attach = "returned"
    /\ page.socket.created /\ page.socket.attach = "returned"
    /\ page.socket.observers = 2 /\ page.socket.sendWrappers = 2

\* C20: when loading the chain registry fails during attach, the registry stays
\* empty and attach still installs the socket and provider interceptors, the
\* listeners and the error hooks, and still calls logUserLanded.
C20_RegistryFailureNonBlocking ==
    page.attach = "rejected" =>
        /\ (page.attaches = 1 => ~page.chainlist)
        /\ page.installs >= 1
        /\ page.WebSocket >= (IF page.dom THEN 2 ELSE 1)
        /\ page.listeners
        /\ page.hooks
        /\ page.landed >= 1

C20_Witness ==
    /\ page.entry = "import" /\ page.attaches = 1 /\ page.attach = "rejected"
    /\ ~page.chainlist
    /\ page.installs = 0 /\ page.WebSocket = 0
    /\ ~page.listeners /\ ~page.hooks /\ page.landed = 0
    /\ [kind |-> "unhandledrejection", from |-> "attach"] \in hostErrors

\* C18: once logUserLanded or logErrors is past fetchWallet and its first loop,
\* it has built one event with no chain state and wallet type and provider
\* "none" when fetchWallet returned no wallet, and else one event per wallet,
\* in order, with that wallet's type, provider and chain state.
C18_PageFanOut ==
    \A t \in 1..Len(tasks) :
        (tasks[t].fn \in {"logUserLanded", "logErrors"} /\ tasks[t].pc \notin {"fetchWallet", "build"}) =>
            IF tasks[t].walletsList = <<>>
            THEN /\ Len(tasks[t].events) = 1
                 /\ tasks[t].events[1].chainState = NoChainState
                 /\ tasks[t].events[1].walletType = "none"
                 /\ tasks[t].events[1].walletProvider = "none"
            ELSE /\ Len(tasks[t].events) = Len(tasks[t].walletsList)
                 /\ \A k \in 1..Len(tasks[t].events) :
                        /\ tasks[t].events[k].walletType = tasks[t].walletsList[k].type
                        /\ tasks[t].events[k].walletProvider = tasks[t].walletsList[k].walletProvider
                        /\ tasks[t].events[k].chainState.walletAddress = tasks[t].walletsList[k].wallet

C18_Witness ==
    \E t \in 1..Len(tasks) :
        /\ tasks[t].fn = "logUserLanded" /\ tasks[t].pc = "caughtBuilding"
        /\ Len(tasks[t].walletsList) = 3
        /\ tasks[t].events = <<>>

\* C19: when getChainState fails for a wallet (no RPC endpoint for its chain id,
\* or a failing read), the function still ends with an event handed to
\* checkShouldLogEvent for every wallet, the one of the failing wallet without
\* chain state.
C19_ChainReadDegradation ==
    \A t \in 1..Len(tasks) :
        tasks[t].pc \in {"done", "caughtBuilding"} =>
            \A k \in 1..Len(tasks[t].walletsList) :
                \E j \in 1..Len(checkLog) :
                    /\ checkLog[j].task = t
                    /\ checkLog[j].event.walletType = tasks[t].walletsList[k].type
                    /\ (tasks[t].pc = "caughtBuilding" /\ k = tasks[t].i) =>
                            checkLog[j].event.chainState = NoChainState

C19_Witness ==
    \E t \in 1..Len(tasks) :
        /\ tasks[t].pc = "caughtBuilding"
        /\ tasks[t].i = 2 /\ Len(tasks[t].events) = 1
        /\ tasks[t].walletsList[2].type = "coinbase"
        /\ \A j \in 1..Len(checkLog) : checkLog[j].task # t

\* C21: once a response carrying user id U is processed, localStorage holds U
\* and every event built afterwards carries U, until another response assigns
\* another id; a random id is in the store only while no response has assigned
\* one.
C21_BackendAssignedUserId ==
    /\ page.assigned # 0 => page.userId = page.assigned
    /\ page.lastBuilt.assigned # 0 => page.lastBuilt.userId = page.lastBuilt.assigned
    /\ page.userId \in RandomIds => page.assigned = 0

C21_Witness ==
    /\ page.assigned \in BackendIds /\ page.userId = page.assigned
    /\ page.lastBuilt.assigned = page.assigned
    /\ page.lastBuilt.userId \in RandomIds
    /\ \E t \in 1..Len(tasks) : tasks[t].pc = "awaitCreate" /\ tasks[t].userId \in RandomIds

\* C22: a call of fetchCbObject made with no Coinbase session leaves a session
\* exactly when session id, linked = '1', a non-empty address list, session
\* secret, default chain id and default RPC URL are all non-empty; the session
\* then has all six fields, and else there is none.
C22_CoinbaseStrictness ==
    (page.fetched.made /\ ~page.fetched.before) =>
        LET st == page.fetched.storage
            addresses == IF page.fetched.newAddressesValue.null
                         THEN st.Addresses
                         ELSE page.fetched.newAddressesValue
            complete == /\ \A item \in {st.sessionId, st.linked, st.sessionSecret,
                                        st.defaultChainId, st.defaultJsonRpcUrl, addresses} :
                                ~item.null /\ Len(item.text) > 0
                        /\ st.linked.text = <<49>>
        IN  /\ cbObject.present <=> complete
            /\ ~cbObject.present => cbObject = NoCb
            /\ cbObject.present =>
                    /\ cbObject.addresses = addresses.text
                    /\ \A f \in {"sessionId", "sessionSecret", "linked", "addresses",
                                  "defaultChainId", "defaultJsonRpcUrl"} : cbObject[f] # <<>>

C22_Witness ==
    /\ page.fetched.made /\ ~page.fetched.before
    /\ page.fetched.newAddressesValue.null
    /\ ~page.fetched.storage.Addresses.null /\ page.fetched.storage.Addresses.text = <<>>
    /\ Truthy(page.fetched.storage.sessionId) /\ page.fetched.storage.linked.text = <<49>>
    /\ Truthy(page.fetched.storage.sessionSecret)
    /\ Truthy(page.fetched.storage.defaultChainId)
    /\ Truthy(page.fetched.storage.defaultJsonRpcUrl)
    /\ ~cbObject.present

\* C23: every call of getProviderNameForMetamask returns the label of the first
\* probe that matches, in the order trust, gowallet, alphawallet, status,
\* coinbase, rabby, frame, cipher, mist, parity, infura, localhost, metamask;
\* metamask is returned only when no other probe matches.
ProbeOrder ==
    <<"trust", "gowallet", "alphawallet", "status", "coinbase", "rabby", "frame", "cipher",
      "mist", "parity", "infura", "localhost", "metamask">>

C23_BrandProbeOrdering ==
    \A c \in 1..Len(page.names) :
        /\ IF page.probes = {}
           THEN page.names[c] = "unknown"
           ELSE \E k \in 1..Len(ProbeOrder) :
                    /\ page.names[c] = ProbeOrder[k]
                    /\ ProbeOrder[k] \in page.probes
                    /\ \A j \in 1..(k - 1) : ProbeOrder[j] \notin page.probes
        /\ page.names[c] = "metamask" => page.probes = {"metamask"}

C23_Witness ==
    /\ page.probes = {"rabby", "metamask"}
    /\ page.names = <<"rabby", "rabby">>

\* C24: once a call of addProviderListeners has ended, whatever calls came
\* before or overlap, the injected provider holds one entry of
\* accountsChangedListener, and a notification with an account starts
\* logWalletConnect once.
C24_SingleAccountsChangedBinding ==
    /\ page.bound > 0 => page.registrations = 1
    /\ page.bound = 0 => page.registrations = 0
    /\ (page.emitted.made /\ page.emitted.accounts # <<>>) =>
            page.emitted.started = (IF page.emitted.bound = 0 THEN 0 ELSE 1)

C24_Witness ==
    /\ page.bound = 2 /\ page.registrations = 1
    /\ page.emitted.made /\ page.emitted.accounts # <<>> /\ page.emitted.started = 1
    /\ page.emitted.bound = 2
    /\ Len(tasks) = 1

\* C25: when a provider object is on window.ethereum at the time the accessor
\* is defined, the first read afterwards returns a Proxy around that object,
\* and a read that follows a read, with no write between them, returns the
\* Proxy the earlier read returned and builds none.
C25_WalletPropertyRead ==
    /\ (page.got.made /\ page.got.first /\ page.got.atInstall # "none") =>
            /\ page.got.wrapper
            /\ page.got.target = page.got.atInstall
    /\ (page.got.made /\ page.got.again) =>
            /\ page.got.wrapper
            /\ ~page.got.created

C25_Witness ==
    /\ page.installs = 1
    /\ page.got.made /\ page.got.first /\ page.got.atInstall = "provider"
    /\ ~page.got.wrapper
    /\ page.proxy = 0

\* C26: once a provider object has been assigned to window.ethereum through
\* the setter, proxy holds a Proxy that forwards to that object, and every
\* read made afterwards returns a Proxy that forwards to it.
C26_WalletPropertyWrite ==
    /\ page.lastSet # "none" => (page.proxy > 0 /\ page.target = page.lastSet)
    /\ (page.got.made /\ page.got.lastSet # "none") =>
            /\ page.got.wrapper
            /\ page.got.target = page.got.lastSet

C26_Witness ==
    /\ page.atInstall = "injected" /\ ~page.provider
    /\ page.got.made /\ page.got.lastSet = "other"
    /\ page.got.wrapper /\ page.got.target = "other"
    /\ page.lastSet = "other" /\ page.returned

\* C27: a watcher that has made a lookup and polls no more has ended mined
\* (waitMined returned SUCCESS or FAILURE for a receipt with a block number) or
\* timed out (waitMined returned null after retries lookups), whatever failed.
C27_WatcherRunsToCompletion ==
    \A i \in 1..Len(tasks) :
        (tasks[i].polls > 0 /\ tasks[i].pc # "waitMined") =>
            \/ /\ tasks[i].returned \in {"SUCCESS", "FAILURE"}
               /\ tasks[i].receipt.present /\ tasks[i].receipt.blockNumber
            \/ /\ tasks[i].returned = "null"
               /\ tasks[i].polls = retries

C27_Witness ==
    \E i \in 1..Len(tasks) :
        /\ tasks[i].txStatus = "PENDING"
        /\ tasks[i].polls > 0 /\ tasks[i].polls < retries
        /\ tasks[i].pc = "caught"
        /\ tasks[i].returned = "none"

\* C28: a request whose transaction is reported has settled with the result
\* of the real request from the moment logSendTransaction is called, whatever
\* the report and its waitMined do afterwards; a step of a polling waitMined
\* (a lookup that resolves or fails) changes no other log function and no
\* request, and a step of another log function leaves a polling waitMined as
\* it is.
C28_WatcherIndependence ==
    /\ [](\A i \in 1..Len(tasks) :
            tasks[i].src.kind = "request" =>
                /\ calls[tasks[i].src.id].pc = "settled"
                /\ calls[tasks[i].src.id].outcome = calls[tasks[i].src.id].real)
    /\ [][\A i \in 1..Len(tasks) :
            tasks[i].pc = "waitMined" =>
                \/ tasks'[i] = tasks[i]
                \/ /\ Len(tasks') = Len(tasks)
                   /\ \A j \in 1..Len(tasks) : j # i => tasks'[j] = tasks[j]
                   /\ calls' = calls]_vars

C28_Witness ==
    /\ Len(calls) = 1 /\ calls[1].pc = "settled"
    /\ calls[1].outcome = Resolved([type |-> "string", accounts |-> <<>>, text |-> <<104>>])
    /\ Len(tasks) = 2
    /\ tasks[1].src.kind = "request" /\ tasks[1].pc = "waitMined" /\ tasks[1].polls > 1
    /\ tasks[2].fn = "logErrors" /\ tasks[2].overlapped /\ tasks[2].pc = "done"
    /\ \E c \in 1..Len(gqlCalls) :
            gqlCalls[c].task = 2 /\ gqlCalls[c].mutation = "CreateErrorEvent"

\* C29: after every call of checkShouldLogEvent the dedup record holds, for
\* the hash of the event, the time of that call, whatever the call returned;
\* so a call returns false exactly when the call before it for the same hash
\* was made less than 1000 ms earlier, and a suppressed event causes no
\* create call.
C29_WindowReset ==
    \A k \in 1..Len(checkLog) :
        LET same == {p \in 1..Len(checkLog) : checkLog[p].hash = checkLog[k].hash}
            before == {p \in same : p < k}
            latest == CHOOSE p \in same : \A q \in same : q <= p
            previous == CHOOSE p \in before : \A q \in before : q <= p
        IN  /\ MapGet(PF_EVENTS_HASH_MAP, checkLog[k].hash) = checkLog[latest].time
            /\ checkLog[k].shouldBeLogged <=>
                    (before # {} =>
                        checkLog[k].time - checkLog[previous].time >= MIN_TIME_DIFF_FOR_EVENT_LOG_MS)
            /\ ~checkLog[k].shouldBeLogged => CreateCallsFor({k}) = {}

\* three identical events 500 ms apart: the third comes 1000 ms after the one
\* emitted and is suppressed
C29_Witness ==
    /\ Len(checkLog) = 3
    /\ checkLog[1].hash = checkLog[2].hash /\ checkLog[2].hash = checkLog[3].hash
    /\ checkLog[2].time - checkLog[1].time = 500
    /\ checkLog[3].time - checkLog[2].time = 500
    /\ checkLog[1].shouldBeLogged /\ ~checkLog[2].shouldBeLogged /\ ~checkLog[3].shouldBeLogged
    /\ Cardinality(CreateCallsFor({1, 2, 3})) = 1
    /\ MapGet(PF_EVENTS_HASH_MAP, checkLog[3].hash) = checkLog[3].time

\* C30: whatever the order in which log functions in flight at the same time
\* reach checkShouldLogEvent, each call decides on the record as the call
\* before it left it, so of two calls for one hash made less than 1000 ms apart
\* at most one returns true and at most one create call is made.
C30_DedupCriticalSection ==
    \A k1, k2 \in 1..Len(checkLog) :
        (/\ k1 < k2
         /\ checkLog[k1].hash = checkLog[k2].hash
         /\ checkLog[k2].time - checkLog[k1].time < MIN_TIME_DIFF_FOR_EVENT_LOG_MS) =>
            /\ ~(checkLog[k1].shouldBeLogged /\ checkLog[k2].shouldBeLogged)
            /\ Cardinality(CreateCallsFor({k1, k2})) <= 1

\* two logUserLanded calls in flight together; the one called later checks first
C30_Witness ==
    /\ Len(tasks) = 2 /\ Len(checkLog) = 2
    /\ tasks[1].fn = "logUserLanded" /\ tasks[2].fn = "logUserLanded"
    /\ checkLog[1].task = 2 /\ checkLog[2].task = 1
    /\ checkLog[1].event = checkLog[2].event
    /\ checkLog[2].time - checkLog[1].time = 500
    /\ checkLog[1].shouldBeLogged /\ ~checkLog[2].shouldBeLogged
    /\ Cardinality(CreateCallsFor({1, 2})) = 1

\* C31: the SDK writes localStorage under PF_SDK_USER_KEY and
\* PF_EVENTS_HASH_MAP only, and a setItem call of the host stores the host's
\* value under the host's key with one call of the native setItem.
C31_StorageFrame ==
    /\ page.engineWrote \subseteq {"PF_SDK_USER_KEY", "PF_EVENTS_HASH_MAP"}
    /\ page.stored.made =>
            /\ page.stored.times = 1
            /\ page.walletlink[page.stored.key] = Str(page.stored.value)

C31_Witness ==
    /\ "setItem" \in page.engineWrote
    /\ page.setItem = "native"
    /\ page.stored.made /\ page.stored.times = 1

\* C32: whenever the real request resolves, for whatever method and with
\* whatever value, the promise of the wrapper resolves with that value.
C32_ResultTransparency ==
    \A c \in 1..Len(calls) :
        RealSucceeded(c) => calls[c].outcome = calls[c].real

\* eth_requestAccounts resolves with an empty list and the host gets undefined
C32_Witness ==
    \E c \in 1..Len(calls) :
        /\ RealSucceeded(c)
        /\ calls[c].asked.method = "eth_requestAccounts"
        /\ calls[c].real.value.type = "accounts" /\ calls[c].real.value.accounts = <<>>
        /\ calls[c].outcome = Resolved(NoResult)
        /\ StartedBy(c) = {}

\* C33: each call of a socket's wrapped send invokes the original send at most
\* once, also when the original send itself throws.
C33_SingleForwarding ==
    lastSend.called => Len(lastSend.forwarded) <= 1

\* a frame that parses was sent while the original send throws: the try block
\* and the catch block both applied the original send
C33_Witness ==
    /\ lastSend.called
    /\ lastSend.threw
    /\ lastSend.frame.envelope = "other"
    /\ lastSend.forwarded = <<lastSend.frame, lastSend.frame>>


\* C34: the accounts-changed listener never throws into the provider's event
\* emitter, whatever account list it is notified with; for an empty list it
\* starts no WalletConnect event.
C34_AccountsChangedListenerSafety ==
    /\ [kind |-> "exception", from |-> "accountsChangedListener"] \notin hostErrors
    /\ (page.emitted.made /\ page.emitted.accounts = <<>>) => page.emitted.started = 0

\* a bound listener was notified with the empty list: it started no event and
\* its TypeError reached the emitter
C34_Witness ==
    /\ page.emitted.made
    /\ page.emitted.accounts = <<>>
    /\ page.registrations > 0
    /\ page.emitted.started = 0
    /\ [kind |-> "exception", from |-> "accountsChangedListener"] \in hostErrors

\* C35: when the response frame with id X is delivered after send returned for
\* the eth_sendTransaction-shaped request with id X, the pending entry for X
\* is recorded before the listener matches the response, in every order in
\* which the two decryptions settle, so the response starts its TxRequest event.
C35_CorrelationUnderInterleaving ==
    (/\ lastMessage.seen
     /\ lastMessage.afterSend
     /\ lastMessage.frame.decrypts
     /\ lastMessage.frame.body.kind = "result")
        => /\ lastMessage.wasPending
           /\ lastMessage.started = 1

\* the response was delivered after the request was sent, its decryption
\* settled first: the request's decryption is still outstanding, the listener
\* found no pending entry and started no event
C35_Witness ==
    /\ lastMessage.seen
    /\ lastMessage.afterSend
    /\ lastMessage.frame.decrypts
    /\ lastMessage.frame.body.kind = "result"
    /\ ~lastMessage.wasPending
    /\ lastMessage.started = 0
    /\ \E run \in wsRuns :
          /\ run.dir = "out" /\ run.via = lastMessage.via /\ run.frame.decrypts
          /\ Has(onOutboundDecrypted(run.via, run.frame.body, <<>>), lastMessage.frame.body.id)

\* C36: a PENDING TxRequest event that the deduplicator suppresses causes no
\* create call, no receipt lookup and no status update; the receipt lookups of
\* a transaction start only once the create call of its PENDING event has
\* returned.
C36_SuppressedNotWatched ==
    /\ [](\A i \in 1..Len(tasks) :
            (/\ tasks[i].fn = "logSendTransaction"
             /\ tasks[i].txStatus = "PENDING"
             /\ tasks[i].sub # 0
             /\ ~checkLog[tasks[i].sub].shouldBeLogged)
                => /\ tasks[i].pc = "suppressed"
                   /\ tasks[i].polls = 0
                   /\ tasks[i].returned = "none"
                   /\ \A c \in 1..Len(gqlCalls) : gqlCalls[c].task # i)
    /\ [][\A i \in 1..Len(tasks) :
            /\ (tasks'[i].pc = "waitMined" /\ tasks[i].pc # "waitMined")
                    => /\ tasks[i].pc = "awaitCreate"
                       /\ tasks[i].txStatus = "PENDING"
                       /\ checkLog[tasks[i].sub].shouldBeLogged
                       /\ \E c \in 1..Len(gqlCalls) :
                            /\ gqlCalls[c].task = i
                            /\ gqlCalls[c].mutation = "CreateTxRequestEvent"
            /\ tasks'[i].polls > tasks[i].polls => tasks[i].pc = "waitMined"]_vars

\* the same PENDING transaction was reported twice within the window: the
\* first was created, watched and updated, the second was suppressed
C36_Witness ==
    /\ Len(tasks) = 2
    /\ tasks[1].txStatus = "PENDING" /\ tasks[2].txStatus = "PENDING"
    /\ tasks[1].polls > 0
    /\ \E c \in 1..Len(gqlCalls) :
            gqlCalls[c].task = 1 /\ gqlCalls[c].mutation = "UpdateTxRequestEventTxStatus"
    /\ tasks[2].sub # 0
    /\ ~checkLog[tasks[2].sub].shouldBeLogged
    /\ tasks[2].pc = "suppressed"

\* the items fetchCbObject read at its last call, and whether a required one
\* was missing or empty
FetchedAddresses ==
    IF page.fetched.newAddressesValue.null THEN page.fetched.storage.Addresses
    ELSE page.fetched.newAddressesValue
FetchedIncomplete ==
    LET st == page.fetched.storage
    IN  \/ \E item \in {st.sessionId, st.linked, st.sessionSecret, st.defaultChainId,
                          st.defaultJsonRpcUrl, FetchedAddresses} :
                item.null \/ Len(item.text) = 0
        \/ st.linked.text # <<49>>

\* C37: whenever fetchCbObject re-reads the Coinbase relay keys after a storage
\* change and a required item is missing or empty, there is no Coinbase
\* session afterwards: a session loaded earlier is not kept.
C37_NoStaleCoinbaseSession ==
    (/\ page.fetched.made
     /\ ~page.fetched.newAddressesValue.null
     /\ FetchedIncomplete)
        => ~cbObject.present

\* a session was loaded, then the Addresses key was set to the empty string:
\* the re-read found no addresses and the earlier session is still there
C37_Witness ==
    /\ page.fetched.made
    /\ page.fetched.before
    /\ ~page.fetched.newAddressesValue.null
    /\ page.fetched.newAddressesValue.text = <<>>
    /\ FetchedIncomplete
    /\ cbObject.present
    /\ cbObject.addresses # <<>>

\* C38: after any installs, reads and writes of window.ethereum, a write-back of
\* the value read before included, one request dispatched through the object
\* window.ethereum returns reaches the provider's own request exactly once and
\* starts at most one event.
C38_SingleInterception ==
    page.dispatch.pc # "none" =>
        /\ page.dispatch.real = 1
        /\ page.dispatch.started <= 1

\* the host wrote the proxy it had read back to window.ethereum and called
\* request: the provider was asked once and two log functions were started
C38_Witness ==
    /\ page.wroteBack
    /\ page.dispatch.pc = "settled"
    /\ page.dispatch.layers = 2
    /\ page.dispatch.real = 1
    /\ page.dispatch.started = 2
    /\ Len(tasks) = 2

\* C39: checkShouldLogEvent returns false for an event only if an event of
\* equal serialized content was checked less than 1000 ms earlier; events of
\* different content never suppress each other through the 32-bit hash.
C39_NoFalseSuppression ==
    \A k \in 1..Len(checkLog) :
        ~checkLog[k].shouldBeLogged =>
            \E p \in 1..(k - 1) :
                /\ stringify(checkLog[p].event) = stringify(checkLog[k].event)
                /\ checkLog[k].time - checkLog[p].time < MIN_TIME_DIFF_FOR_EVENT_LOG_MS

\* two transactions to different recipients, reported within the window, have
\* one hash, and the second is suppressed
C39_Witness ==
    /\ Len(checkLog) = 2
    /\ checkLog[1].event.tx.to # checkLog[2].event.tx.to
    /\ stringify(checkLog[1].event) # stringify(checkLog[2].event)
    /\ checkLog[1].hash = checkLog[2].hash
    /\ checkLog[2].time - checkLog[1].time < MIN_TIME_DIFF_FOR_EVENT_LOG_MS
    /\ checkLog[1].shouldBeLogged
    /\ ~checkLog[2].shouldBeLogged
    /\ CreateCallsFor({2}) = {}

\* a frame that is JSON and belongs to neither bridge: another object, or a
\* WalletConnect-shaped frame while there is no WalletConnect session
Unrelated(frame) ==
    \/ frame.envelope = "other"
    \/ frame.envelope = "wc" /\ ~wcObject.present
\* a decrypted outbound request that is a transaction submission
Submission(via, body) ==
    \/ via = "wc" /\ body.method = "eth_sendTransaction"
    \/ via = "cb" /\ body.method = "signEthereumTransaction" /\ body.shouldSubmit

\* C40: an inbound or outbound frame that is JSON but belongs to neither the
\* WalletConnect session nor the Coinbase relay, an outbound bridge frame whose
\* decrypted payload is no transaction submission, and an inbound bridge frame
\* whose id is not pending, leave the pending-request map as it was and start
\* no event.
C40_UnrelatedFrames ==
    /\ [](lastMessage.seen =>
            /\ Unrelated(lastMessage.frame) =>
                    /\ lastMessage.via = "none"
                    /\ lastMessage.after = lastMessage.before
                    /\ lastMessage.started = 0
            /\ (lastMessage.via # "none" /\ lastMessage.frame.decrypts /\ ~lastMessage.wasPending) =>
                    /\ lastMessage.after = lastMessage.before
                    /\ lastMessage.started = 0)
    /\ [][(lastSend'.called /\ wsRuns \subseteq wsRuns') =>
                \* a call of send
                /\ wsMessages' = wsMessages
                /\ tasks' = tasks
                /\ Unrelated(lastSend'.frame) => wsRuns' = wsRuns]_vars
    /\ [][\A run \in wsRuns \ wsRuns' :
                \* the decryption of an outbound frame has settled
                (run.dir = "out" /\ run.frame.decrypts /\ ~Submission(run.via, run.frame.body)) =>
                    /\ wsMessages' = wsMessages
                    /\ tasks' = tasks]_vars

\* with the request of id 1 pending, the result frame of id 2 came in: the map
\* is as it was and nothing was logged
C40_Witness ==
    /\ lastMessage.seen
    /\ lastMessage.via = "wc"
    /\ lastMessage.frame.decrypts
    /\ lastMessage.frame.body.kind = "result"
    /\ lastMessage.frame.body.id = 2
    /\ ~lastMessage.wasPending
    /\ Has(lastMessage.before, 1)
    /\ lastMessage.after = lastMessage.before
    /\ lastMessage.started = 0
    /\ tasks = <<>>

====
